---- MODULE Spec2Model ----
(***************************************************************************)
(* Street View tile stitcher (services/streetView: stitchStreetViewImage,  *)
(* fetchTileWithRetry, isTileBlack) as a state machine.                    *)
(*                                                                         *)
(* JavaScript runs one task at a time.  Every action below is one task     *)
(* together with the promise continuations it triggers: a call of          *)
(* stitchStreetViewImage up to its first suspension, an image's load or    *)
(* error event, a retry timer, and the continuation of the join            *)
(* (await Promise.all).                                                    *)
(***************************************************************************)
EXTENDS Integers, Sequences, FiniteSets, TLC

VARIABLES
    jobState,      \* per job: "idle" | "running" | "resolved" | "rejected"
    jobArgs,       \* per job: the (panoId, zoom) it was called with
    jobError,      \* per job: the error the returned promise rejected with
    grid,          \* per job: const grid (GRID_SIZES.find)
    queue,         \* per job: const queue = [...tileCoords]
    images,        \* per job: const images: key -> image | null
    loadedTiles,   \* per job: let loadedTiles
    totalTiles,    \* per job: const totalTiles
    workers,       \* per job: state of each promise of the workers array
    fetches,       \* per job: the fetchTileWithRetry promises not yet consumed
    canvas,        \* per job: the composited canvas, tile by tile
    progressLog,   \* history: the arguments of every onProgress call, in order
    processed,     \* history: the coordinates handed to processTile, in order
    writes,        \* history: number of assignments to images[key]
    lastSettle,    \* history: how the latest processTile call ended
    calls,         \* stand-alone fetchTileWithRetry calls (FetchSpec)
    tilePlan,      \* per coordinate: how the tile server answers (PlanSpec)
    bench,         \* one image and what the pixel functions made of it (CanvasSpec)
    pipe,          \* fetched tiles on their way to the encoded image (PipeSpec)
    app            \* the page: App, ImageDisplay, ResolutionSelector state (AppSpec)

vars == <<jobState, jobArgs, jobError, grid, queue, images, loadedTiles,
          totalTiles, workers, fetches, canvas, progressLog, processed,
          writes, lastSettle, calls, tilePlan, bench, pipe, app>>

\* The variables only the stand-alone specifications of the pure functions use.
sideVars == <<tilePlan, bench, pipe, app>>

jobVars == <<jobState, jobArgs, jobError, grid, queue, images, loadedTiles,
             totalTiles, workers, fetches, canvas, progressLog, processed,
             writes, lastSettle>>

----------------------------------------------------------------------------
(* Program constants *)

TILE_SIZE == 512

CONCURRENT_DOWNLOADS == 8

GRID_SIZES == << [zoom |-> 3, x |-> 8, y |-> 4],
                 [zoom |-> 4, x |-> 16, y |-> 8] >>

\* fetchTileWithRetry(url, retries = 2)
DefaultRetries == 2

\* setTimeout(..., 200 * attempts)
RetryDelayMs == 200

----------------------------------------------------------------------------
(* Bounds of the model *)

\* A job's grid is the catalog's grid cut to at most MaxCols x MaxRows tiles.
MaxCols == 3

MaxRows == 1

\* A job's pool is CONCURRENT_DOWNLOADS workers cut to at most MaxWorkers.
MaxWorkers == 2

\* The cuts used when two jobs run side by side (DualSpec): one row of at most
\* DualMaxCols tiles, at most DualMaxWorkers workers.
DualMaxCols == 2

DualMaxWorkers == 1

\* The largest retries argument of a stand-alone fetchTileWithRetry call.
MaxRetries == 3

JobIds == {"jobA", "jobB"}

PanoIds == {"panoX"}

\* The zooms a single job is asked for: 3 is a catalog zoom level, 99 is in no
\* catalog entry.  (Zoom 4, cut to the same grid, runs in DualSpec.)
ZoomInputs == {3, 99}

CallIds == {"call1", "call2"}

\* The zoom each of two side-by-side jobs is asked for (one per resolution).
DualZoom == [jobA |-> 3, jobB |-> 4]

Min(a, b) == IF a < b THEN a ELSE b

----------------------------------------------------------------------------
(* Values *)

\* null / undefined
Null == <<>>

Some(v) == <<v>>

NoGrid == [zoom |-> -1, x |-> 0, y |-> 0]

NoArgs == [panoId |-> "", zoom |-> -1]

EmptyMap == [k \in {} |-> Null]

NoFetch == [url |-> "", retries |-> 0, attempts |-> 0, loads |-> 0,
            state |-> "none", delay |-> 0]

NoSettle == [key |-> "", fetched |-> FALSE, blank |-> FALSE]

\* No answer fixed for any coordinate: each tile event is free.
NoPlan == EmptyMap

NoBench == [stage |-> "off"]

NoPipe == [stage |-> "off"]

NoApp == [stage |-> "off"]

\* `${coord.x},${coord.y}`
Key(coord) == ToString(coord.x) \o "," \o ToString(coord.y)

\* The tile URL template of processTile.
TileUrl(panoId, coord, zoom) ==
    "https://streetviewpixels-pa.googleapis.com/v1/tile?cb_client=maps_sv.tactile&panoid="
        \o panoId \o "&x=" \o ToString(coord.x) \o "&y=" \o ToString(coord.y)
        \o "&zoom=" \o ToString(zoom) \o "&nbt=1&fover=2"

\* An HTMLImageElement after its load event, named by where it was loaded from.
Image(url) == [src |-> url]

----------------------------------------------------------------------------
(* Resolution catalog *)

\* The catalog with every grid cut to capCols x capRows tiles.
CutGrids(capCols, capRows) ==
    [i \in DOMAIN GRID_SIZES |->
        [zoom |-> GRID_SIZES[i].zoom,
         x |-> Min(GRID_SIZES[i].x, capCols),
         y |-> Min(GRID_SIZES[i].y, capRows)]]

\* Mutant of GridFind: an unknown zoom falls back to the first catalog entry.
GridFindOrFirst(grids, zoom) ==
    LET hits == {i \in DOMAIN grids : grids[i].zoom = zoom}
    IN  IF hits = {} THEN grids[1]
        ELSE grids[CHOOSE i \in hits : \A k \in hits : i <= k]

\* Array.prototype.find: the first entry with that zoom, or NoGrid (undefined).
GridFind(grids, zoom) ==
    LET hits == {i \in DOMAIN grids : grids[i].zoom = zoom}
    IN  IF hits = {} THEN NoGrid
        ELSE grids[CHOOSE i \in hits : \A k \in hits : i <= k]

\* Mutant of TileCoords: the loops nested the other way round (x outer, y
\* inner), a column-major enumeration.
TileCoordsColumnMajor(g) ==
    [i \in 1..(g.x * g.y) |-> [x |-> (i - 1) \div g.y, y |-> (i - 1) % g.y]]

\* for (y...) for (x...) tileCoords.push({x, y})
TileCoords(g) ==
    [i \in 1..(g.x * g.y) |-> [x |-> (i - 1) % g.x, y |-> (i - 1) \div g.x]]

GridKeys(g) == {Key(TileCoords(g)[i]) : i \in 1..(g.x * g.y)}

----------------------------------------------------------------------------
(* fetchTileWithRetry: one promise with its image element *)

\* new Promise(...): attempts = 0; load() sets img.src, the first load attempt.
NewFetch(url, retries) ==
    [url |-> url, retries |-> retries, attempts |-> 0, loads |-> 1,
     state |-> "loading", delay |-> 0]

\* img.onload = () => resolve(img)
FetchOnLoad(f) == [f EXCEPT !.state = "resolved"]

\* Mutant of FetchOnError: the bound is compared with <=, one attempt too many.
FetchOnErrorOneMore(f) ==
    LET a == f.attempts + 1
    IN  IF a <= f.retries
        THEN [f EXCEPT !.attempts = a, !.state = "timer", !.delay = RetryDelayMs * a]
        ELSE [f EXCEPT !.attempts = a, !.state = "rejected"]

\* Mutant of FetchOnError: when the attempts are used up the promise is left
\* pending (no reject).
FetchOnErrorNoReject(f) ==
    LET a == f.attempts + 1
    IN  IF a < f.retries
        THEN [f EXCEPT !.attempts = a, !.state = "timer", !.delay = RetryDelayMs * a]
        ELSE [f EXCEPT !.attempts = a, !.state = "pending"]

\* img.onerror: attempts++; retry after 200 * attempts ms, or reject.
FetchOnError(f) ==
    LET a == f.attempts + 1
    IN  IF a < f.retries
        THEN [f EXCEPT !.attempts = a, !.state = "timer", !.delay = RetryDelayMs * a]
        ELSE [f EXCEPT !.attempts = a, !.state = "rejected"]

\* setTimeout(() => img.src = url, ...): the next load attempt starts.
FetchOnTimer(f) == [f EXCEPT !.state = "loading", !.loads = f.loads + 1]

----------------------------------------------------------------------------
(* isTileBlack *)

\* Mutant of isTileBlack: without a context the tile counts as blank
\* (return true).
isTileBlackBlankWithoutContext(dark, ctxOk) == IF ~ctxOk THEN TRUE ELSE dark

\* if (!ctx) return false; otherwise nonBlackCount / checkedPixels < 0.02.
\* dark: fewer than 2% of the sampled pixels of the image are above the threshold.
isTileBlack(dark, ctxOk) == IF ~ctxOk THEN FALSE ELSE dark

----------------------------------------------------------------------------
(* stitchStreetViewImage: the locals of one call (its closure) *)

\* Mutant of Closure: images and loadedTiles are module-level, shared by all
\* calls, instead of locals of each call.
ClosureShared(j) ==
    [queue |-> queue[j],
     images |-> images["jobA"] @@ images["jobB"],
     loadedTiles |-> loadedTiles["jobA"] + loadedTiles["jobB"],
     totalTiles |-> totalTiles[j], workers |-> workers[j], fetches |-> fetches[j],
     progressLog |-> progressLog[j], processed |-> processed[j],
     writes |-> writes[j], lastSettle |-> lastSettle[j]]

\* The locals of job j, as one record the operators below transform.
Closure(j) ==
    [queue |-> queue[j], images |-> images[j], loadedTiles |-> loadedTiles[j],
     totalTiles |-> totalTiles[j], workers |-> workers[j], fetches |-> fetches[j],
     progressLog |-> progressLog[j], processed |-> processed[j],
     writes |-> writes[j], lastSettle |-> lastSettle[j]]

\* The caller's onProgress callback: the log keeps the Progress value it was
\* given, with how many fetches had been started and how many slots of images
\* were set at that moment.
onProgress(r, p) ==
    [r EXCEPT !.progressLog =
        Append(r.progressLog,
               [progress |-> p,
                started |-> Len(r.processed),
                stored |-> Cardinality(DOMAIN r.images)])]

\* Mutant of QueueShift: reads the first element without removing it (queue[0]).
QueueShiftNoRemove(q) ==
    IF Len(q) = 0 THEN [item |-> Null, rest |-> q]
    ELSE [item |-> Some(Head(q)), rest |-> q]

\* queue.shift(): the removed first element (undefined if empty) and the rest.
QueueShift(q) ==
    IF Len(q) = 0 THEN [item |-> Null, rest |-> q]
    ELSE [item |-> Some(Head(q)), rest |-> Tail(q)]

\* images[key] = val
StoreSlot(r, key, val) ==
    [r EXCEPT !.images = (key :> val) @@ r.images,
              !.writes = (key :> (IF key \in DOMAIN r.writes THEN r.writes[key] + 1 ELSE 1))
                            @@ r.writes]

\* processTile(coord) up to its await: the tile's fetch is started by worker w.
ProcessTileStart(r, w, coord, args) ==
    [r EXCEPT !.processed = Append(r.processed, coord),
              !.fetches = r.fetches \cup
                  {[worker |-> w, coord |-> coord,
                    fetch |-> NewFetch(TileUrl(args.panoId, coord, args.zoom),
                                       DefaultRetries)]}]

\* Mutant of ProcessTileSettle: loadedTiles counts only the tiles stored as
\* images (the increment sits in the try branch, not in finally).
ProcessTileSettleCountPresent(r, t, f, dark, ctxOk) ==
    LET key == Key(t.coord)
        isBlack == isTileBlack(dark, ctxOk)
        present == f.state = "resolved" /\ ~isBlack
        stored == StoreSlot(r, key, IF present THEN Some(Image(f.url)) ELSE Null)
        noted == [stored EXCEPT !.lastSettle =
                     [key |-> key,
                      fetched |-> (f.state = "resolved"),
                      blank |-> (f.state = "resolved" /\ isBlack)]]
        counted == [noted EXCEPT !.loadedTiles =
                       IF present THEN noted.loadedTiles + 1 ELSE noted.loadedTiles]
    IN  onProgress(counted, [loaded |-> counted.loadedTiles, total |-> counted.totalTiles])

\* Mutant of ProcessTileSettle: a tile classified blank is stored all the same.
ProcessTileSettleKeepBlank(r, t, f, dark, ctxOk) ==
    LET key == Key(t.coord)
        isBlack == isTileBlack(dark, ctxOk)
        stored == StoreSlot(r, key, IF f.state = "resolved" THEN Some(Image(f.url)) ELSE Null)
        noted == [stored EXCEPT !.lastSettle =
                     [key |-> key,
                      fetched |-> (f.state = "resolved"),
                      blank |-> (f.state = "resolved" /\ isBlack)]]
        counted == [noted EXCEPT !.loadedTiles = noted.loadedTiles + 1]
    IN  onProgress(counted, [loaded |-> counted.loadedTiles, total |-> counted.totalTiles])

\* Mutant of ProcessTileSettle: progress is reported in the try branch only, so
\* a tile whose fetch was rejected is counted without a report.
ProcessTileSettleSilentFailure(r, t, f, dark, ctxOk) ==
    LET key == Key(t.coord)
        isBlack == isTileBlack(dark, ctxOk)
        present == f.state = "resolved" /\ ~isBlack
        stored == StoreSlot(r, key, IF present THEN Some(Image(f.url)) ELSE Null)
        noted == [stored EXCEPT !.lastSettle =
                     [key |-> key,
                      fetched |-> (f.state = "resolved"),
                      blank |-> (f.state = "resolved" /\ isBlack)]]
        counted == [noted EXCEPT !.loadedTiles = noted.loadedTiles + 1]
    IN  IF f.state = "resolved"
        THEN onProgress(counted, [loaded |-> counted.loadedTiles, total |-> counted.totalTiles])
        ELSE counted

\* Mutant of ProcessTileSettle: the tile is counted and reported as soon as
\* its fetch settles, and its slot is stored after that.
ProcessTileSettleReportBeforeStore(r, t, f, dark, ctxOk) ==
    LET key == Key(t.coord)
        img == Image(f.url)
        isBlack == isTileBlack(dark, ctxOk)
        noted == [r EXCEPT !.lastSettle =
                     [key |-> key,
                      fetched |-> (f.state = "resolved"),
                      blank |-> (f.state = "resolved" /\ isBlack)]]
        counted == [noted EXCEPT !.loadedTiles = noted.loadedTiles + 1]
        reported == onProgress(counted, [loaded |-> counted.loadedTiles,
                                         total |-> counted.totalTiles])
    IN  IF f.state = "resolved" /\ ~isBlack
        THEN StoreSlot(reported, key, Some(img))
        ELSE StoreSlot(reported, key, Null)

\* processTile(coord) after its await: t is the tile, f its settled fetch.
\* try: classify and store; catch: store null; finally: count and report.
ProcessTileSettle(r, t, f, dark, ctxOk) ==
    LET key == Key(t.coord)
        img == Image(f.url)
        isBlack == isTileBlack(dark, ctxOk)
        stored == IF f.state = "resolved"
                  THEN IF ~isBlack THEN StoreSlot(r, key, Some(img))
                                   ELSE StoreSlot(r, key, Null)
                  ELSE StoreSlot(r, key, Null)
        noted == [stored EXCEPT !.lastSettle =
                     [key |-> key,
                      fetched |-> (f.state = "resolved"),
                      blank |-> (f.state = "resolved" /\ isBlack)]]
        counted == [noted EXCEPT !.loadedTiles = noted.loadedTiles + 1]
    IN  onProgress(counted, [loaded |-> counted.loadedTiles, total |-> counted.totalTiles])

\* Mutant of WorkerLoop: a worker whose tile's fetch was rejected returns
\* (the rejection escapes processTile and ends the worker).
WorkerLoopStopOnFailure(r, w, args) ==
    IF r.lastSettle.key # "" /\ ~r.lastSettle.fetched
    THEN [r EXCEPT !.workers[w] = "done"]
    ELSE IF Len(r.queue) > 0
         THEN LET s == QueueShift(r.queue)
                  popped == [r EXCEPT !.queue = s.rest, !.workers[w] = "awaiting"]
              IN  ProcessTileStart(popped, w, s.item[1], args)
         ELSE [r EXCEPT !.workers[w] = "done"]

\* Mutant of WorkerLoop: processTile is not awaited, so a worker that finds
\* two coordinates queued starts both.
WorkerLoopTwoAtOnce(r, w, args) ==
    IF Len(r.queue) > 1
    THEN LET s1 == QueueShift(r.queue)
             s2 == QueueShift(s1.rest)
             popped == [r EXCEPT !.queue = s2.rest, !.workers[w] = "awaiting"]
         IN  ProcessTileStart(ProcessTileStart(popped, w, s1.item[1], args),
                              w, s2.item[1], args)
    ELSE IF Len(r.queue) > 0
         THEN LET s == QueueShift(r.queue)
                  popped == [r EXCEPT !.queue = s.rest, !.workers[w] = "awaiting"]
              IN  ProcessTileStart(popped, w, s.item[1], args)
         ELSE [r EXCEPT !.workers[w] = "done"]

\* Mutant of WorkerLoop: `if` for `while`: a worker returns after its first
\* tile, whatever is left in the queue.
WorkerLoopOneTile(r, w, args) ==
    IF r.workers[w] = "new" /\ Len(r.queue) > 0
    THEN LET s == QueueShift(r.queue)
             popped == [r EXCEPT !.queue = s.rest, !.workers[w] = "awaiting"]
         IN  ProcessTileStart(popped, w, s.item[1], args)
    ELSE [r EXCEPT !.workers[w] = "done"]

\* One worker, from the head of its loop to its next suspension:
\* while (queue.length > 0) { coord = queue.shift(); if (coord) await processTile(coord) }
WorkerLoop(r, w, args) ==
    IF Len(r.queue) > 0
    THEN LET s == QueueShift(r.queue)
             popped == [r EXCEPT !.queue = s.rest, !.workers[w] = "awaiting"]
         IN  ProcessTileStart(popped, w, s.item[1], args)
    ELSE [r EXCEPT !.workers[w] = "done"]

\* Array(n).fill(null).map(async () => ...): the workers start one after the
\* other, each running to its first suspension.
RECURSIVE LaunchWorkers(_, _, _, _)
LaunchWorkers(r, w, n, args) ==
    IF w > n THEN r
    ELSE LaunchWorkers(WorkerLoop(r, w, args), w + 1, n, args)

\* Mutant of AllWorkersDone: the job goes on as soon as one worker has
\* returned (Promise.race for Promise.all).
AnyWorkerDone(j) ==
    \E w \in DOMAIN workers[j] : workers[j][w] = "done"

AllWorkersDone(j) ==
    \A w \in DOMAIN workers[j] : workers[j][w] = "done"

\* The continuation of `await Promise.all(workers)` is queued: promise
\* continuations run before the next task.
JoinPending == \E j \in JobIds : jobState[j] = "running" /\ AllWorkersDone(j)

\* The canvas after fillRect and the drawImage loop: per tile offset, the image
\* drawn there, or Null where the black fill stays.
Composite(g, imgs) ==
    [width |-> g.x * TILE_SIZE,
     height |-> g.y * TILE_SIZE,
     tiles |-> [o \in {<<c.x * TILE_SIZE, c.y * TILE_SIZE>> :
                         c \in {TileCoords(g)[i] : i \in 1..(g.x * g.y)}} |->
                  LET k == Key([x |-> o[1] \div TILE_SIZE, y |-> o[2] \div TILE_SIZE])
                  IN  IF k \in DOMAIN imgs /\ imgs[k] # Null THEN imgs[k] ELSE Null]]

\* `Invalid zoom level provided: ${zoom}. Available levels are 3-4.`
InvalidZoomError(zoom) ==
    "Invalid zoom level provided: " \o ToString(zoom) \o ". Available levels are 3-4."

NoCanvas == [width |-> 0, height |-> 0, tiles |-> <<>>]

Commit(j, r) ==
    /\ queue' = [queue EXCEPT ![j] = r.queue]
    /\ images' = [images EXCEPT ![j] = r.images]
    /\ loadedTiles' = [loadedTiles EXCEPT ![j] = r.loadedTiles]
    /\ totalTiles' = [totalTiles EXCEPT ![j] = r.totalTiles]
    /\ workers' = [workers EXCEPT ![j] = r.workers]
    /\ fetches' = [fetches EXCEPT ![j] = r.fetches]
    /\ progressLog' = [progressLog EXCEPT ![j] = r.progressLog]
    /\ processed' = [processed EXCEPT ![j] = r.processed]
    /\ writes' = [writes EXCEPT ![j] = r.writes]
    /\ lastSettle' = [lastSettle EXCEPT ![j] = r.lastSettle]

----------------------------------------------------------------------------
(* Actions *)

Init ==
    /\ jobState = [j \in JobIds |-> "idle"]
    /\ jobArgs = [j \in JobIds |-> NoArgs]
    /\ jobError = [j \in JobIds |-> ""]
    /\ grid = [j \in JobIds |-> NoGrid]
    /\ queue = [j \in JobIds |-> <<>>]
    /\ images = [j \in JobIds |-> EmptyMap]
    /\ loadedTiles = [j \in JobIds |-> 0]
    /\ totalTiles = [j \in JobIds |-> 0]
    /\ workers = [j \in JobIds |-> <<>>]
    /\ fetches = [j \in JobIds |-> {}]
    /\ canvas = [j \in JobIds |-> NoCanvas]
    /\ progressLog = [j \in JobIds |-> <<>>]
    /\ processed = [j \in JobIds |-> <<>>]
    /\ writes = [j \in JobIds |-> EmptyMap]
    /\ lastSettle = [j \in JobIds |-> NoSettle]
    /\ calls = [c \in CallIds |-> NoFetch]
    /\ tilePlan = NoPlan
    /\ bench = NoBench
    /\ pipe = NoPipe
    /\ app = NoApp

\* stitchStreetViewImage(panoId, zoom, onProgress), up to `await Promise.all`.
StartJob(j, panoId, zoom, capCols, capRows, capWorkers) ==
    LET g == GridFind(CutGrids(capCols, capRows), zoom)
        args == [panoId |-> panoId, zoom |-> zoom]
    IN  /\ jobState[j] = "idle"
        /\ ~JoinPending
        /\ jobArgs' = [jobArgs EXCEPT ![j] = args]
        /\ IF g = NoGrid
           THEN /\ jobState' = [jobState EXCEPT ![j] = "rejected"]
                /\ jobError' = [jobError EXCEPT ![j] = InvalidZoomError(zoom)]
                /\ UNCHANGED <<grid, queue, images, loadedTiles, totalTiles, workers,
                               fetches, canvas, progressLog, processed, writes, lastSettle>>
           ELSE LET tileCoords == TileCoords(g)
                    n == Min(CONCURRENT_DOWNLOADS, capWorkers)
                    r0 == [Closure(j) EXCEPT !.loadedTiles = 0,
                                             !.totalTiles = Len(tileCoords)]
                    r1 == onProgress(r0, [loaded |-> 0, total |-> r0.totalTiles])
                    r2 == [r1 EXCEPT !.images = EmptyMap,
                                     !.queue = tileCoords,
                                     !.workers = [w \in 1..n |-> "new"]]
                IN  /\ jobState' = [jobState EXCEPT ![j] = "running"]
                    /\ grid' = [grid EXCEPT ![j] = g]
                    /\ \E r \in {LaunchWorkers(r2, 1, n, args)} : Commit(j, r)
                    /\ UNCHANGED <<jobError, canvas>>
        /\ UNCHANGED <<calls, sideVars>>

\* A tile's image fires its load event: the fetch resolves, processTile
\* classifies and stores the tile and reports progress, and the worker that
\* awaited it goes round its loop.
TileLoad(j) ==
    /\ jobState[j] = "running"
    /\ ~JoinPending
    /\ \E t \in fetches[j], dark \in BOOLEAN, ctxOk \in BOOLEAN :
        /\ t.fetch.state = "loading"
        /\ LET f == FetchOnLoad(t.fetch)
               r0 == [Closure(j) EXCEPT !.fetches = fetches[j] \ {t}]
               r1 == ProcessTileSettle(r0, t, f, dark, ctxOk)
           IN  \E r \in {WorkerLoop(r1, t.worker, jobArgs[j])} : Commit(j, r)
    /\ UNCHANGED <<jobState, jobArgs, jobError, grid, canvas, calls, sideVars>>

\* A tile's image fires its error event: the fetch schedules a retry, or
\* rejects, and then processTile stores null, reports progress, and the worker
\* goes round its loop.
TileError(j) ==
    /\ jobState[j] = "running"
    /\ ~JoinPending
    /\ \E t \in fetches[j] :
        /\ t.fetch.state = "loading"
        /\ LET f == FetchOnError(t.fetch)
               r0 == [Closure(j) EXCEPT !.fetches = fetches[j] \ {t}]
           IN  \E r \in {IF f.state = "rejected"
                        THEN WorkerLoop(ProcessTileSettle(r0, t, f, FALSE, TRUE),
                                        t.worker, jobArgs[j])
                        ELSE [r0 EXCEPT !.fetches =
                                 r0.fetches \cup {[t EXCEPT !.fetch = f]}]} :
                   Commit(j, r)
    /\ UNCHANGED <<jobState, jobArgs, jobError, grid, canvas, calls, sideVars>>

\* A retry timer fires: img.src = url.
TileRetry(j) ==
    /\ jobState[j] = "running"
    /\ ~JoinPending
    /\ \E t \in fetches[j] :
        /\ t.fetch.state = "timer"
        /\ fetches' = [fetches EXCEPT ![j] =
                          (fetches[j] \ {t}) \cup {[t EXCEPT !.fetch = FetchOnTimer(t.fetch)]}]
    /\ UNCHANGED <<jobState, jobArgs, jobError, grid, queue, images, loadedTiles,
                   totalTiles, workers, canvas, progressLog, processed, writes,
                   lastSettle, calls, sideVars>>

\* The continuation of `await Promise.all(workers)`: composite, or throw when
\* no 2D context can be had.
FinishJob(j) ==
    /\ jobState[j] = "running"
    /\ AllWorkersDone(j)
    /\ \E ctxOk \in BOOLEAN :
        IF ~ctxOk
        THEN /\ jobState' = [jobState EXCEPT ![j] = "rejected"]
             /\ jobError' = [jobError EXCEPT ![j] = "Could not get 2D canvas context."]
             /\ UNCHANGED canvas
        ELSE /\ jobState' = [jobState EXCEPT ![j] = "resolved"]
             /\ canvas' = [canvas EXCEPT ![j] = Composite(grid[j], images[j])]
             /\ UNCHANGED jobError
    /\ UNCHANGED <<jobArgs, grid, queue, images, loadedTiles, totalTiles, workers,
                   fetches, progressLog, processed, writes, lastSettle, calls,
                   sideVars>>

\* One call of stitchStreetViewImage.
Start ==
    \E panoId \in PanoIds, zoom \in ZoomInputs :
        StartJob("jobA", panoId, zoom, MaxCols, MaxRows, MaxWorkers)

Load == TileLoad("jobA")

Error == TileError("jobA")

Retry == TileRetry("jobA")

Finish == FinishJob("jobA")

Next == Start \/ Load \/ Error \/ Retry \/ Finish

Spec == Init /\ [][Next]_vars

----------------------------------------------------------------------------
(* Two jobs side by side: one resolution each, for the same panorama *)

DualStart ==
    \E j \in JobIds, panoId \in PanoIds :
        StartJob(j, panoId, DualZoom[j], DualMaxCols, 1, DualMaxWorkers)

DualLoad == \E j \in JobIds : TileLoad(j)

DualError == \E j \in JobIds : TileError(j)

DualRetry == \E j \in JobIds : TileRetry(j)

DualFinish == \E j \in JobIds : FinishJob(j)

DualNext == DualStart \/ DualLoad \/ DualError \/ DualRetry \/ DualFinish

DualSpec == Init /\ [][DualNext]_vars

----------------------------------------------------------------------------
(* fetchTileWithRetry on its own, for every retries argument 1..MaxRetries *)

FetchInit ==
    /\ jobState = [j \in JobIds |-> "idle"]
    /\ jobArgs = [j \in JobIds |-> NoArgs]
    /\ jobError = [j \in JobIds |-> ""]
    /\ grid = [j \in JobIds |-> NoGrid]
    /\ queue = [j \in JobIds |-> <<>>]
    /\ images = [j \in JobIds |-> EmptyMap]
    /\ loadedTiles = [j \in JobIds |-> 0]
    /\ totalTiles = [j \in JobIds |-> 0]
    /\ workers = [j \in JobIds |-> <<>>]
    /\ fetches = [j \in JobIds |-> {}]
    /\ canvas = [j \in JobIds |-> NoCanvas]
    /\ progressLog = [j \in JobIds |-> <<>>]
    /\ processed = [j \in JobIds |-> <<>>]
    /\ writes = [j \in JobIds |-> EmptyMap]
    /\ lastSettle = [j \in JobIds |-> NoSettle]
    /\ \E n \in [CallIds -> 1..MaxRetries] :
          calls = [c \in CallIds |-> NewFetch(c, n[c])]
    /\ tilePlan = NoPlan
    /\ bench = NoBench
    /\ pipe = NoPipe
    /\ app = NoApp

\* The image of call c fires its load event.
CallLoad(c) ==
    /\ calls[c].state = "loading"
    /\ calls' = [calls EXCEPT ![c] = FetchOnLoad(calls[c])]
    /\ UNCHANGED <<jobVars, sideVars>>

\* The image of call c fires its error event.
CallError(c) ==
    /\ calls[c].state = "loading"
    /\ calls' = [calls EXCEPT ![c] = FetchOnError(calls[c])]
    /\ UNCHANGED <<jobVars, sideVars>>

\* The retry timer of call c fires.
CallTimer(c) ==
    /\ calls[c].state = "timer"
    /\ calls' = [calls EXCEPT ![c] = FetchOnTimer(calls[c])]
    /\ UNCHANGED <<jobVars, sideVars>>

FetchLoad == \E c \in CallIds : CallLoad(c)

FetchError == \E c \in CallIds : CallError(c)

FetchTimer == \E c \in CallIds : CallTimer(c)

FetchNext == FetchLoad \/ FetchError \/ FetchTimer

FetchSpec == FetchInit /\ [][FetchNext]_vars

----------------------------------------------------------------------------
(* Properties *)

\* A job that passed the zoom check (its grid was found).
HasGrid(j) == grid[j] # NoGrid

Total(j) == grid[j].x * grid[j].y

CoordSet(g) == {TileCoords(g)[i] : i \in 1..(g.x * g.y)}

\* All workers of a job that passed the zoom check have returned.
Joined(j) == HasGrid(j) /\ AllWorkersDone(j)

LastProgress(j) == progressLog[j][Len(progressLog[j])].progress

\* C1: the Progress values a job passes to onProgress all carry
\* total = columns * rows, loaded never decreases from one emission to the
\* next and never exceeds total, and once all workers have returned the last
\* value emitted is {loaded: total, total: total}.
C1_ProgressMonotoneToTotal ==
    \A j \in JobIds : HasGrid(j) =>
        LET log == progressLog[j]
        IN  /\ \A i \in DOMAIN log :
                /\ log[i].progress.total = Total(j)
                /\ log[i].progress.loaded >= 0
                /\ log[i].progress.loaded <= log[i].progress.total
            /\ \A i \in 1..(Len(log) - 1) :
                log[i].progress.loaded <= log[i + 1].progress.loaded
            /\ AllWorkersDone(j) =>
                /\ Len(log) > 0
                /\ LastProgress(j) = [loaded |-> Total(j), total |-> Total(j)]

\* C1 witness: a finished job in which some tile is absent and some present.
C1_Witness ==
    /\ jobState["jobA"] = "resolved"
    /\ LastProgress("jobA") = [loaded |-> Total("jobA"), total |-> Total("jobA")]
    /\ \E k \in DOMAIN images["jobA"] : images["jobA"][k] = Null
    /\ \E k \in DOMAIN images["jobA"] : images["jobA"][k] # Null

\* C2: every coordinate handed to processTile lies in the grid and is handed
\* over once; the coordinates handed over and those still queued are disjoint
\* and together are the grid; no two fetches in flight are for the same
\* coordinate; and when all workers have returned nothing is left queued.
C2_EachCoordinateClaimedOnce ==
    \A j \in JobIds : HasGrid(j) =>
        LET done == processed[j]
            left == queue[j]
        IN  /\ \A i \in DOMAIN done :
                /\ done[i].x \in 0..(grid[j].x - 1)
                /\ done[i].y \in 0..(grid[j].y - 1)
            /\ \A a, b \in DOMAIN done : a # b => done[a] # done[b]
            /\ \A a \in DOMAIN done, b \in DOMAIN left : done[a] # left[b]
            /\ {done[i] : i \in DOMAIN done} \cup {left[i] : i \in DOMAIN left}
                  = CoordSet(grid[j])
            /\ \A t1, t2 \in fetches[j] : t1.coord = t2.coord => t1 = t2
            /\ AllWorkersDone(j) =>
                /\ left = <<>>
                /\ Len(done) = Total(j)

\* C2 witness: every coordinate was claimed, more of them than there are
\* workers, so workers came back to the queue.
C2_Witness ==
    /\ Joined("jobA")
    /\ Len(processed["jobA"]) = Total("jobA")
    /\ Total("jobA") > Len(workers["jobA"])
    /\ Len(workers["jobA"]) > 1

\* C3: a tile failure never aborts the job.  A job is rejected only by the
\* zoom check or for want of a canvas context, never while tiles are
\* outstanding; whatever tiles failed, when the workers have returned every
\* coordinate was processed and counted and the job can go on to composite
\* and resolve; and a resolved job has a composite of the full grid size.
C3_TileFailureNeverAborts ==
    \A j \in JobIds :
        /\ jobState[j] = "rejected" =>
            \/ ~HasGrid(j)
            \/ /\ jobError[j] = "Could not get 2D canvas context."
               /\ AllWorkersDone(j)
        /\ Joined(j) =>
            /\ queue[j] = <<>>
            /\ fetches[j] = {}
            /\ DOMAIN images[j] = GridKeys(grid[j])
            /\ loadedTiles[j] = Total(j)
        /\ (HasGrid(j) /\ jobState[j] \in {"resolved", "rejected"}) => AllWorkersDone(j)
        /\ (jobState[j] = "running" /\ Joined(j)) =>
            ENABLED (FinishJob(j) /\ jobState'[j] = "resolved")
        /\ jobState[j] = "resolved" =>
            /\ Joined(j)
            /\ canvas[j].width = grid[j].x * TILE_SIZE
            /\ canvas[j].height = grid[j].y * TILE_SIZE

\* C3 witness: a job resolved although no tile is present and the last tile's
\* fetch was rejected.
C3_Witness ==
    /\ jobState["jobA"] = "resolved"
    /\ \A k \in GridKeys(grid["jobA"]) : images["jobA"][k] = Null
    /\ ~lastSettle["jobA"].fetched
    /\ lastSettle["jobA"].key # ""

InCatalog(zoom) == \E i \in DOMAIN GRID_SIZES : GRID_SIZES[i].zoom = zoom

\* C4: a call with a zoom that is in no catalog entry is rejected at once with
\* the invalid-zoom error: no fetch started, onProgress never called, no
\* canvas, no image.
C4_InvalidZoomRejectsAtOnce ==
    \A j \in JobIds :
        (jobState[j] # "idle" /\ ~InCatalog(jobArgs[j].zoom)) =>
            /\ jobState[j] = "rejected"
            /\ jobError[j] = InvalidZoomError(jobArgs[j].zoom)
            /\ progressLog[j] = <<>>
            /\ processed[j] = <<>>
            /\ fetches[j] = {}
            /\ workers[j] = <<>>
            /\ queue[j] = <<>>
            /\ images[j] = EmptyMap
            /\ canvas[j] = NoCanvas

\* C4 witness: a call with zoom 99 was made and rejected.
C4_Witness ==
    /\ jobArgs["jobA"].zoom = 99
    /\ jobState["jobA"] = "rejected"

\* C5: the fetches started and not yet settled are never more than the pool
\* (CONCURRENT_DOWNLOADS workers, cut to the model's pool), and no worker has
\* more than one.
C5_BoundedInFlight ==
    \A j \in JobIds :
        /\ Len(workers[j]) <= CONCURRENT_DOWNLOADS
        /\ Cardinality(fetches[j]) <= Len(workers[j])
        /\ \A w \in DOMAIN workers[j] :
              Cardinality({t \in fetches[j] : t.worker = w}) <= 1
        /\ \A t \in fetches[j] :
              /\ t.worker \in DOMAIN workers[j]
              /\ workers[j][t.worker] = "awaiting"
              /\ t.fetch.state \in {"loading", "timer"}

\* C5 witness: the pool is full again after a worker came back to the queue.
C5_Witness ==
    /\ Cardinality(fetches["jobA"]) = Len(workers["jobA"])
    /\ Len(workers["jobA"]) > 1
    /\ loadedTiles["jobA"] > 0

C7_SlotWrittenOnce ==
    \A j \in JobIds : HasGrid(j) =>
        /\ DOMAIN writes[j] = DOMAIN images[j]
        /\ \A k \in DOMAIN writes[j] : writes[j][k] = 1
        /\ DOMAIN images[j] \subseteq GridKeys(grid[j])
        /\ AllWorkersDone(j) => DOMAIN images[j] = GridKeys(grid[j])
        /\ \A c \in CoordSet(grid[j]) :
              Key(c) \in DOMAIN images[j] =>
                  \/ images[j][Key(c)] = Null
                  \/ images[j][Key(c)] =
                        Some(Image(TileUrl(jobArgs[j].panoId, c, jobArgs[j].zoom)))
        /\ lastSettle[j].key # "" =>
              LET k == lastSettle[j].key
              IN  /\ k \in DOMAIN images[j]
                  /\ images[j][k] # Null <=> (lastSettle[j].fetched /\ ~lastSettle[j].blank)
                  /\ images[j][k] = Null <=> (~lastSettle[j].fetched \/ lastSettle[j].blank)

\* C7 witness: the workers have returned, the tile settled last was loaded and
\* classified blank, and another coordinate holds an image.
C7_Witness ==
    /\ Joined("jobA")
    /\ lastSettle["jobA"].fetched
    /\ lastSettle["jobA"].blank
    /\ images["jobA"][lastSettle["jobA"].key] = Null
    /\ \E k \in DOMAIN images["jobA"] : images["jobA"][k] # Null

\* C8: onProgress is called once with {0, total} before any fetch is started
\* and then once per settled tile, the k-th of these calls with loaded = k; a
\* job that resolved made total + 1 calls.
C8_OneReportPerTile ==
    \A j \in JobIds : HasGrid(j) =>
        LET log == progressLog[j]
        IN  /\ Len(log) >= 1
            /\ log[1].progress = [loaded |-> 0, total |-> Total(j)]
            /\ log[1].started = 0
            /\ \A i \in DOMAIN log :
                  log[i].progress = [loaded |-> i - 1, total |-> Total(j)]
            /\ Len(log) = 1 + Len(processed[j]) - Cardinality(fetches[j])
            /\ Len(log) = 1 + Cardinality(DOMAIN images[j])
            /\ jobState[j] = "resolved" => Len(log) = Total(j) + 1

\* C8 witness: a resolved job that made total + 1 reports, one of them for a
\* tile whose fetch was rejected.
C8_Witness ==
    /\ jobState["jobA"] = "resolved"
    /\ Len(progressLog["jobA"]) = Total("jobA") + 1
    /\ Total("jobA") > 1
    /\ ~lastSettle["jobA"].fetched

\* One call of stitchStreetViewImage, on the first row of the cut grid.
LiveStart ==
    \E panoId \in PanoIds, zoom \in ZoomInputs :
        StartJob("jobA", panoId, zoom, MaxCols, 1, MaxWorkers)

LiveNext == LiveStart \/ Load \/ Error \/ Retry \/ Finish

\* A single job with the scheduling the claim assumes: an image that is
\* loading fires its load or its error event, a retry timer fires, and the
\* continuation of the join runs.
LiveSpec ==
    /\ Init
    /\ [][LiveNext]_vars
    /\ WF_vars(Load \/ Error)
    /\ WF_vars(Retry)
    /\ WF_vars(Finish)

\* C9: a job with a supported zoom runs to completion: once it is running,
\* eventually its queue is empty, all its workers have returned, the progress
\* {total, total} was emitted and the returned promise has settled.
C9_JobRunsToCompletion ==
    \A j \in {"jobA"} :
        (jobState[j] = "running") ~>
            (/\ jobState[j] \in {"resolved", "rejected"}
             /\ queue[j] = <<>>
             /\ fetches[j] = {}
             /\ AllWorkersDone(j)
             /\ Len(progressLog[j]) > 0
             /\ LastProgress(j) = [loaded |-> Total(j), total |-> Total(j)])

\* C9 witness: a job has resolved with every tile of its grid loaded.
C9_Witness ==
    /\ jobState["jobA"] = "resolved"
    /\ queue["jobA"] = <<>>
    /\ AllWorkersDone("jobA")
    /\ \A k \in GridKeys(grid["jobA"]) : images["jobA"][k] # Null

\* C10: two jobs side by side do not interfere.  Each job's reports are
\* those of a job alone, {0, total}, {1, total}, ... with its own total, one
\* per tile of its own that settled; its slots are slots of its own grid and
\* hold null or the image loaded from its own panorama, zoom and coordinate;
\* its fetches in flight are its own; when its workers have returned its last
\* report is {total, total}; and its canvas is drawn from its own images.
C10_JobsDoNotInterfere ==
    \A j \in JobIds : HasGrid(j) =>
        LET log == progressLog[j]
            OwnImage(c) == Some(Image(TileUrl(jobArgs[j].panoId, c, jobArgs[j].zoom)))
        IN  /\ jobArgs[j].zoom = DualZoom[j]
            /\ grid[j].zoom = DualZoom[j]
            /\ totalTiles[j] = Total(j)
            /\ \A i \in DOMAIN log :
                  log[i].progress = [loaded |-> i - 1, total |-> Total(j)]
            /\ Len(log) = 1 + Len(processed[j]) - Cardinality(fetches[j])
            /\ loadedTiles[j] = Len(log) - 1
            /\ DOMAIN images[j] \subseteq GridKeys(grid[j])
            /\ Cardinality(DOMAIN images[j]) = loadedTiles[j]
            /\ \A c \in CoordSet(grid[j]) :
                  Key(c) \in DOMAIN images[j] => images[j][Key(c)] \in {Null, OwnImage(c)}
            /\ \A t \in fetches[j] :
                  t.fetch.url = TileUrl(jobArgs[j].panoId, t.coord, jobArgs[j].zoom)
            /\ AllWorkersDone(j) =>
                  /\ LastProgress(j) = [loaded |-> Total(j), total |-> Total(j)]
                  /\ DOMAIN images[j] = GridKeys(grid[j])
            /\ jobState[j] = "resolved" => canvas[j] = Composite(grid[j], images[j])

\* C10 witness: both jobs are running, each has settled a tile and has one in
\* flight, and each holds an image.
C10_Witness ==
    \A j \in JobIds :
        /\ jobState[j] = "running"
        /\ loadedTiles[j] >= 1
        /\ fetches[j] # {}
        /\ \E k \in DOMAIN images[j] : images[j][k] # Null

----------------------------------------------------------------------------
(* One job against a tile server whose answer per coordinate is fixed *)

\* What the tile server has for a coordinate: an image the classifier keeps,
\* an image it classifies blank, or nothing (every load attempt errors).
PlanOutcomes == {"image", "blank", "failed"}

\* The zoom levels of the catalog.
CatalogZooms == {GRID_SIZES[i].zoom : i \in DOMAIN GRID_SIZES}

\* No call of stitchStreetViewImage or fetchTileWithRetry was made.
IdleJobs ==
    /\ jobState = [j \in JobIds |-> "idle"]
    /\ jobArgs = [j \in JobIds |-> NoArgs]
    /\ jobError = [j \in JobIds |-> ""]
    /\ grid = [j \in JobIds |-> NoGrid]
    /\ queue = [j \in JobIds |-> <<>>]
    /\ images = [j \in JobIds |-> EmptyMap]
    /\ loadedTiles = [j \in JobIds |-> 0]
    /\ totalTiles = [j \in JobIds |-> 0]
    /\ workers = [j \in JobIds |-> <<>>]
    /\ fetches = [j \in JobIds |-> {}]
    /\ canvas = [j \in JobIds |-> NoCanvas]
    /\ progressLog = [j \in JobIds |-> <<>>]
    /\ processed = [j \in JobIds |-> <<>>]
    /\ writes = [j \in JobIds |-> EmptyMap]
    /\ lastSettle = [j \in JobIds |-> NoSettle]
    /\ calls = [c \in CallIds |-> NoFetch]

PlanInit ==
    /\ IdleJobs
    /\ app = NoApp
    /\ tilePlan \in [GridKeys(CutGrids(MaxCols, 1)[1]) -> PlanOutcomes]
    /\ bench = NoBench
    /\ pipe = NoPipe

PlanStart ==
    \E panoId \in PanoIds, zoom \in CatalogZooms :
        StartJob("jobA", panoId, zoom, MaxCols, 1, MaxWorkers)

\* A load event of a tile the server has an image for; the classifier's
\* verdict is the one fixed for the coordinate.
PlanLoad ==
    /\ TileLoad("jobA")
    /\ LET s == lastSettle'["jobA"]
       IN  tilePlan[s.key] = IF s.blank THEN "blank" ELSE "image"

\* An error event; only a tile the server has nothing for errors on its last
\* attempt.
PlanError ==
    /\ TileError("jobA")
    /\ lastSettle'["jobA"] # lastSettle["jobA"] =>
          tilePlan[lastSettle'["jobA"].key] = "failed"

PlanNext == PlanStart \/ PlanLoad \/ PlanError \/ Retry \/ Finish

PlanSpec == PlanInit /\ [][PlanNext]_vars

\* The composite the plan calls for: at (col * 512, row * 512) the image of the
\* coordinate if the server has one the classifier keeps, the black fill
\* elsewhere.
PlannedCanvas(j) ==
    [width |-> grid[j].x * TILE_SIZE,
     height |-> grid[j].y * TILE_SIZE,
     tiles |-> [o \in {<<c.x * TILE_SIZE, c.y * TILE_SIZE>> : c \in CoordSet(grid[j])} |->
                  LET c == [x |-> o[1] \div TILE_SIZE, y |-> o[2] \div TILE_SIZE]
                  IN  IF tilePlan[Key(c)] = "image"
                      THEN Some(Image(TileUrl(jobArgs[j].panoId, c, jobArgs[j].zoom)))
                      ELSE Null]]

\* C11: for a fixed grid and a fixed outcome per coordinate, whatever the
\* order in which the workers' tiles settle, nothing is drawn before all
\* workers have returned, and the composite of a resolved job is the one the
\* outcomes fix: each kept image at (col * 512, row * 512), black elsewhere.
C11_CompositeSameForEveryOrder ==
    \A j \in JobIds :
        /\ jobState[j] # "resolved" => canvas[j] = NoCanvas
        /\ jobState[j] = "resolved" =>
              /\ queue[j] = <<>>
              /\ fetches[j] = {}
              /\ Len(processed[j]) = Total(j)
              /\ \A w \in DOMAIN workers[j] : workers[j][w] = "done"
              /\ canvas[j] = PlannedCanvas(j)

\* C11 witness: a resolved job whose plan holds all three outcomes and whose
\* first coordinate settled last.
C11_Witness ==
    /\ jobState["jobA"] = "resolved"
    /\ {tilePlan[k] : k \in DOMAIN tilePlan} = PlanOutcomes
    /\ lastSettle["jobA"].key = Key([x |-> 0, y |-> 0])
    /\ Total("jobA") > 1

----------------------------------------------------------------------------
(* Pixels: images and canvases as the pixel functions read them *)

\* A pixel's colour channels <<r, g, b>>, each 0..255.
Black == <<0, 0, 0>>

Gray == <<128, 128, 128>>

\* A colour at the brightness threshold (not above it) and one that is above
\* it in a single channel.
Dim == <<25, 25, 25>>

Bluish == <<0, 0, 26>>

\* What is painted on a surface, as a rule giving the colour at (x, y):
\*   spots: the colour fg at the positions listed, bg elsewhere;
\*   bands: vertical bands repeating every `period` columns, bands[i] = <<first
\*          column, colour>> in increasing order, the first band starting at 0.
Spots(bg, fg, at) == [kind |-> "spots", bg |-> bg, fg |-> fg, at |-> at]

Bands(period, bands) == [kind |-> "bands", period |-> period, bands |-> bands]

Solid(c) == Spots(c, c, {})

\* An image or canvas: its size and the part of the painted surface it shows
\* (ox, oy: where its pixel (0, 0) lies on the surface).
Raster(w, h, paint) == [width |-> w, height |-> h, paint |-> paint, ox |-> 0, oy |-> 0]

\* fillRect black, then drawImage(img, x * side, y * side) for every image of
\* cells: the surface of a composite canvas.
TilesPaint(side, cells) == [kind |-> "tiles", side |-> side, cells |-> cells]

BandColour(bands, x) ==
    LET i == CHOOSE k \in DOMAIN bands :
                 /\ bands[k][1] <= x
                 /\ \A m \in DOMAIN bands : bands[m][1] <= x => m <= k
    IN  bands[i][2]

\* The colour a spots or bands surface has at (x, y).
PaintFlat(p, x, y) ==
    IF p.kind = "spots"
    THEN IF <<x, y>> \in p.at THEN p.fg ELSE p.bg
    ELSE BandColour(p.bands, x % p.period)

\* The colour of pixel (x, y) of an image.
ImagePixel(r, x, y) == PaintFlat(r.paint, x + r.ox, y + r.oy)

\* The colour a surface has at (x, y); on a composite, the pixel of the image
\* drawn over that place, or the black fill.
Paint(p, x, y) ==
    IF p.kind = "tiles"
    THEN LET cell == <<x \div p.side, y \div p.side>>
             lx == x % p.side
             ly == y % p.side
         IN  IF cell \in DOMAIN p.cells /\ p.cells[cell] # Null
                /\ lx < p.cells[cell][1].width /\ ly < p.cells[cell][1].height
             THEN ImagePixel(p.cells[cell][1], lx, ly)
             ELSE Black
    ELSE PaintFlat(p, x, y)

\* getImageData(...).data[4 * i .. 4 * i + 2] for the pixel (x, y) of a canvas.
PixelAt(r, x, y) == Paint(r.paint, x + r.ox, y + r.oy)

\* drawImage(canvas, left, top, w, h, 0, 0, w, h) onto a new w x h canvas.
CropTo(r, left, top, w, h) ==
    [width |-> w, height |-> h, paint |-> r.paint, ox |-> r.ox + left, oy |-> r.oy + top]

\* const thresh = 25
Thresh == 25

\* Mutant of NonBlack: the threshold counts as above itself (>=).
NonBlackAtThreshold(c) == c[1] >= Thresh \/ c[2] >= Thresh \/ c[3] >= Thresh

\* data[i] > thresh || data[i + 1] > thresh || data[i + 2] > thresh
NonBlack(c) == c[1] > Thresh \/ c[2] > Thresh \/ c[3] > Thresh

\* Same size and same colour at every pixel.
SamePixels(a, b) ==
    /\ a.width = b.width
    /\ a.height = b.height
    /\ \A x \in 0..(a.width - 1), y \in 0..(a.height - 1) :
          PixelAt(a, x, y) = PixelAt(b, x, y)

----------------------------------------------------------------------------
(* isTileBlack: the pixels it samples *)

\* for (let i = 0; i < data.length; i += 4 * 16): the pixels read, by their
\* row-major index in the image.
SampledPixels(img) ==
    {(64 * k) \div 4 : k \in {m \in 0..(img.width * img.height) :
                                   64 * m < 4 * img.width * img.height}}

\* checkedPixels
CheckedPixels(img) == Cardinality(SampledPixels(img))

\* nonBlackCount
NonBlackCount(img) ==
    Cardinality({q \in SampledPixels(img) :
                    NonBlack(PixelAt(img, q % img.width, q \div img.width))})

\* Mutant of TileDark: the tolerance is inclusive (<= 0.02).
TileDarkInclusive(img) ==
    /\ CheckedPixels(img) # 0
    /\ 50 * NonBlackCount(img) <= CheckedPixels(img)

\* (nonBlackCount / checkedPixels) < 0.02, which is false for 0 / 0.
TileDark(img) ==
    /\ CheckedPixels(img) # 0
    /\ 50 * NonBlackCount(img) < CheckedPixels(img)

----------------------------------------------------------------------------
(* cropBlackEdges *)

\* let nonBlack = 0; let checked = 0
ScanStart == [nonBlack |-> 0, checked |-> 0, done |-> FALSE]

\* Mutant of ScanStep: the early exit is taken at the first pixel above the
\* threshold, whatever the line's length.
ScanStepExitAtFirst(st, c, size) ==
    IF NonBlack(c)
    THEN [nonBlack |-> st.nonBlack + 1, checked |-> st.checked + 1, done |-> TRUE]
    ELSE [st EXCEPT !.checked = st.checked + 1]

\* The body of the loop of isRowBlack and isColBlack for one pixel read, size
\* being the row's width or the column's height: checked++, and for a pixel
\* above the threshold nonBlack++ and `return false` if
\* nonBlack / (size / 4) > 0.05, which is 80 * nonBlack > size.
ScanStep(st, c, size) ==
    IF NonBlack(c)
    THEN [nonBlack |-> st.nonBlack + 1, checked |-> st.checked + 1,
          done |-> 80 * (st.nonBlack + 1) > size]
    ELSE [st EXCEPT !.checked = st.checked + 1]

\* return false (early exit), or (nonBlack / checked) < 0.02 after the loop.
ScanVerdict(st) ==
    IF st.done THEN FALSE
    ELSE st.checked # 0 /\ 50 * st.nonBlack < st.checked

\* for (let i = 0; i < data.length; i += 4 * 4) {...}, iterations lo..hi in
\* order (by halves), ended early by the `return false`: iteration k reads
\* pixel 16 * k / 4 of the row or column `fixed`.
RECURSIVE PixelScan(_, _, _, _, _, _)
PixelScan(r, along, fixed, lo, hi, st) ==
    IF st.done \/ lo > hi THEN st
    ELSE IF lo = hi
         THEN IF along = "row"
              THEN ScanStep(st, PixelAt(r, (16 * lo) \div 4, fixed), r.width)
              ELSE ScanStep(st, PixelAt(r, fixed, (16 * lo) \div 4), r.height)
         ELSE LET mid == (lo + hi) \div 2
              IN  PixelScan(r, along, fixed, mid + 1, hi,
                            PixelScan(r, along, fixed, lo, mid, st))

\* isRowBlack(y): i = 0, 16, ... < data.length = 4 * width.
isRowBlack(r, y) ==
    ScanVerdict(PixelScan(r, "row", y, 0, (4 * r.width - 1) \div 16, ScanStart))

\* isColBlack(x)
isColBlack(r, x) ==
    ScanVerdict(PixelScan(r, "col", x, 0, (4 * r.height - 1) \div 16, ScanStart))

\* One turn of a border's while loop, st.at being top, bottom, left or right:
\* a black row or column moves it inwards, another ends the loop.
EdgeStep(r, edge, st) ==
    IF edge = "top" THEN
        IF isRowBlack(r, st.at) THEN [st EXCEPT !.at = st.at + 1]
                                ELSE [st EXCEPT !.done = TRUE]
    ELSE IF edge = "bottom" THEN
        IF isRowBlack(r, st.at) THEN [st EXCEPT !.at = st.at - 1]
                                ELSE [st EXCEPT !.done = TRUE]
    ELSE IF edge = "left" THEN
        IF isColBlack(r, st.at) THEN [st EXCEPT !.at = st.at + 1]
                                ELSE [st EXCEPT !.done = TRUE]
    ELSE
        IF isColBlack(r, st.at) THEN [st EXCEPT !.at = st.at - 1]
                                ELSE [st EXCEPT !.done = TRUE]

\* Up to n turns of a border's while loop, in order (by halves).
RECURSIVE EdgeScan(_, _, _, _)
EdgeScan(r, edge, n, st) ==
    IF st.done \/ n <= 0 THEN st
    ELSE IF n = 1 THEN EdgeStep(r, edge, st)
    ELSE EdgeScan(r, edge, n - n \div 2, EdgeScan(r, edge, n \div 2, st))

\* while (top <= bottom && isRowBlack(top)) top++
ScanTop(r, top, bottom) ==
    EdgeScan(r, "top", bottom - top + 1, [at |-> top, done |-> FALSE]).at

\* while (bottom >= top && isRowBlack(bottom)) bottom--
ScanBottom(r, top, bottom) ==
    EdgeScan(r, "bottom", bottom - top + 1, [at |-> bottom, done |-> FALSE]).at

\* while (left <= right && isColBlack(left)) left++
ScanLeft(r, left, right) ==
    EdgeScan(r, "left", right - left + 1, [at |-> left, done |-> FALSE]).at

\* while (right >= left && isColBlack(right)) right--
ScanRight(r, left, right) ==
    EdgeScan(r, "right", right - left + 1, [at |-> right, done |-> FALSE]).at

\* top, bottom, left, right after the four scans.
CropBounds(r) ==
    LET top == ScanTop(r, 0, r.height - 1)
        bottom == ScanBottom(r, top, r.height - 1)
        left == ScanLeft(r, 0, r.width - 1)
        right == ScanRight(r, left, r.width - 1)
    IN  [top |-> top, bottom |-> bottom, left |-> left, right |-> right]

\* Mutant of CropResult: no early return for a scan that collapsed.
CropResultNoCollapseCheck(r, b, cctxOk) ==
    IF b.top = 0 /\ b.bottom = r.height - 1 /\ b.left = 0 /\ b.right = r.width - 1
    THEN r
    ELSE IF cctxOk
         THEN CropTo(r, b.left, b.top, b.right - b.left + 1, b.bottom - b.top + 1)
         ELSE r

\* Mutant of CropResult: the crop's size leaves out the last row and column
\* (right - left, bottom - top).
CropResultExclusive(r, b, cctxOk) ==
    IF b.top > b.bottom \/ b.left > b.right
    THEN r
    ELSE IF b.top = 0 /\ b.bottom = r.height - 1 /\ b.left = 0 /\ b.right = r.width - 1
         THEN r
         ELSE IF cctxOk
              THEN CropTo(r, b.left, b.top, b.right - b.left, b.bottom - b.top)
              ELSE r

\* The returns of cropBlackEdges once the bounds b are found.
CropResult(r, b, cctxOk) ==
    IF b.top > b.bottom \/ b.left > b.right
    THEN r
    ELSE IF b.top = 0 /\ b.bottom = r.height - 1 /\ b.left = 0 /\ b.right = r.width - 1
         THEN r
         ELSE IF cctxOk
              THEN CropTo(r, b.left, b.top, b.right - b.left + 1, b.bottom - b.top + 1)
              ELSE r

\* cropBlackEdges(canvas); ctxOk, cctxOk: whether getContext('2d') gave a
\* context for the canvas and for the cropped canvas.
cropBlackEdges(r, ctxOk, cctxOk) ==
    IF ~ctxOk THEN r ELSE CropResult(r, CropBounds(r), cctxOk)

----------------------------------------------------------------------------
(* removeHorizontalWrap *)

\* const W = 16
W == 16

\* Math.floor(height * 0.3), Math.floor(height * 0.4), Math.floor(width * 0.25)
WrapStartY(r) == (3 * r.height) \div 10

WrapScanHeight(r) == (4 * r.height) \div 10

WrapStartXAtEighth(r) == r.width \div 8

WrapStartX(r) == r.width \div 4

WrapSearchWidth(r) == r.width - WrapStartX(r)

\* if (scanHeight <= 0 || width < 512) return canvas; if (searchWidth <= W) return canvas
WrapSkips(r) ==
    \/ WrapScanHeight(r) <= 0
    \/ r.width < 512
    \/ WrapSearchWidth(r) <= W

\* The rows read: y = 0, 8, ... < scanHeight.
WrapRows(r) == (WrapScanHeight(r) + 7) \div 8

\* pixelsChecked of every candidate: W / 4 pixels of every row read.
PixelsChecked(r) == WrapRows(r) * (W \div 4)

Abs(n) == IF n < 0 THEN -n ELSE n

\* The three Math.abs terms of one compared pixel pair.
PixelDiff(a, b) == Abs(a[1] - b[1]) + Abs(a[2] - b[2]) + Abs(a[3] - b[3])

\* What turns lo..hi of the two inner loops taken as one (y = 0, 8, ...
\* outer, wx = 0, 4, 8, 12 inner) add to totalDiff for the candidate at dx:
\* a sum of integers, taken by halves.
RECURSIVE DiffSum(_, _, _, _)
DiffSum(r, dx, lo, hi) ==
    IF lo > hi THEN 0
    ELSE IF lo = hi
         THEN LET y == 8 * (lo \div (W \div 4))
                  wx == 4 * (lo % (W \div 4))
              IN  PixelDiff(PixelAt(r, wx, WrapStartY(r) + y),
                            PixelAt(r, WrapStartX(r) + dx + wx, WrapStartY(r) + y))
         ELSE LET mid == (lo + hi) \div 2
              IN  DiffSum(r, dx, lo, mid) + DiffSum(r, dx, mid + 1, hi)

\* totalDiff and pixelsChecked of the candidate at dx after the inner loops.
CandidateDiff(r, dx) ==
    [totalDiff |-> DiffSum(r, dx, 0, PixelsChecked(r) - 1),
     pixelsChecked |-> PixelsChecked(r)]

\* let bestMatchX = -1; let minDiff = Infinity.  minDiff is kept as the
\* totalDiff it came from (avgDiff = totalDiff / (pixelsChecked * 3), and
\* pixelsChecked is the same for every candidate); Null is Infinity.
WrapStart == [bestMatchX |-> -1, minDiff |-> Null, scanned |-> 0, done |-> FALSE]

\* Mutant of WrapStep: a candidate under the strict threshold ends the scan
\* before minDiff is updated (the two ifs in the other order).
WrapStepBreakFirst(st, x, total, pc) ==
    IF total < 8 * 3 * pc
    THEN [st EXCEPT !.bestMatchX = x, !.scanned = st.scanned + 1, !.done = TRUE]
    ELSE IF st.minDiff = Null \/ total < st.minDiff[1]
         THEN [st EXCEPT !.minDiff = Some(total), !.bestMatchX = x,
                         !.scanned = st.scanned + 1]
         ELSE [st EXCEPT !.scanned = st.scanned + 1]

\* The body of the scan loop for the candidate at offset x = startX + dx:
\* if (avgDiff < minDiff) {...}; if (avgDiff < 8) {...; break}
WrapStep(st, x, total, pc) ==
    LET st1 == IF st.minDiff = Null \/ total < st.minDiff[1]
               THEN [st EXCEPT !.minDiff = Some(total), !.bestMatchX = x]
               ELSE st
        st2 == [st1 EXCEPT !.scanned = st.scanned + 1]
    IN  IF total < 8 * 3 * pc
        THEN [st2 EXCEPT !.bestMatchX = x, !.done = TRUE]
        ELSE st2

\* The number of candidates of the scan: dx = 0, 2, ... < searchWidth - W.
WrapCandidates(r) == (WrapSearchWidth(r) - W + 1) \div 2

\* Candidates lo..hi of the scan loop in order (by halves), ended early by
\* the break: candidate k is the offset startX + 2 * k.
RECURSIVE CandidateScan(_, _, _, _)
CandidateScan(r, lo, hi, st) ==
    IF st.done \/ lo > hi THEN st
    ELSE IF lo = hi
         THEN LET d == CandidateDiff(r, 2 * lo)
              IN  WrapStep(st, WrapStartX(r) + 2 * lo, d.totalDiff, d.pixelsChecked)
         ELSE LET mid == (lo + hi) \div 2
              IN  CandidateScan(r, mid + 1, hi, CandidateScan(r, lo, mid, st))

\* bestMatchX and minDiff after
\* for (let dx = 0; dx < searchWidth - W; dx += 2) {...}
WrapScan(r) == CandidateScan(r, 0, WrapCandidates(r) - 1, WrapStart)

\* if (bestMatchX !== -1 && minDiff < 15)
WrapAccepts(r, st) ==
    /\ st.bestMatchX # -1
    /\ st.minDiff # Null
    /\ st.minDiff[1] < 15 * 3 * PixelsChecked(r)

\* The returns of removeHorizontalWrap after the scan.
WrapResult(r, st, cctxOk) ==
    IF WrapAccepts(r, st) /\ cctxOk
    THEN CropTo(r, 0, 0, st.bestMatchX, r.height)
    ELSE r

\* removeHorizontalWrap(canvas); ctxOk, cctxOk as in cropBlackEdges.
removeHorizontalWrap(r, ctxOk, cctxOk) ==
    IF ~ctxOk THEN r
    ELSE IF WrapSkips(r) THEN r
    ELSE WrapResult(r, WrapScan(r), cctxOk)

----------------------------------------------------------------------------
(* From the fetched tiles to the encoded image: the classifier, and          *)
(* stitchStreetViewImage after the join                                      *)

\* The grids and the tile size are cut to small sizes, except for the
\* catalog's own grids at 512 pixels a tile, which come with every tile a
\* solid gray image.
MaxPipeCols == 2

MaxPipeRows == 3

MaxTileSize == 4

\* What a row of the grid was fetched as: nothing (the fetch was rejected), or
\* solid images of one colour.
RowKinds == {"failed", "black", "dim", "gray"}

KindColour == [black |-> Black, dim |-> Dim, gray |-> Gray]

\* The fetched tile of a kind: a side x side image, or Null.
FetchedTile(kind, side) ==
    IF kind = "failed" THEN Null ELSE Some(Raster(side, side, Solid(KindColour[kind])))

\* The canvas after fillRect and the drawImage loop, with its pixels: the
\* images of imgs (by `${x},${y}`) at (x * side, y * side) on black.
CompositeCanvas(g, imgs, side) ==
    Raster(g.x * side, g.y * side,
           TilesPaint(side, [cell \in (0..(g.x - 1)) \X (0..(g.y - 1)) |->
                                imgs[Key([x |-> cell[1], y |-> cell[2]])]]))

\* finalCanvas.toDataURL('image/jpeg', 0.95): the encoded image, by what it
\* was encoded from.
toDataURL(r) ==
    [mime |-> "image/jpeg", quality |-> <<95, 100>>,
     width |-> r.width, height |-> r.height, canvas |-> r]

\* Tiles fetched for a cut grid, a row at a time of one kind.
CutPipeInputs ==
    {[stage |-> "fetched", side |-> Min(TILE_SIZE, MaxTileSize), g |-> g,
      fetched |-> [k \in GridKeys(g) |->
                     LET c == CHOOSE d \in CoordSet(g) : Key(d) = k
                     IN  FetchedTile(kinds[c.y], Min(TILE_SIZE, MaxTileSize))]] :
        <<g, kinds>> \in
            UNION {{<<CutGrids(cols, rows)[1], kk>> : kk \in [0..(rows - 1) -> RowKinds]} :
                      <<cols, rows>> \in (1..MaxPipeCols) \X (1..MaxPipeRows)}}

\* A catalog grid at 512 pixels a tile, classified: every tile was kept as a
\* solid gray image, or (first grid) every tile but those of row 0, which are
\* absent.
FullPipeInputs ==
    {[stage |-> "classified", side |-> TILE_SIZE, g |-> GRID_SIZES[i],
      images |-> [k \in GridKeys(GRID_SIZES[i]) |->
                    IF k \in {Key(c) : c \in {d \in CoordSet(GRID_SIZES[i]) : d.y \in absentRows}}
                    THEN Null
                    ELSE Some(Raster(TILE_SIZE, TILE_SIZE, Solid(Gray)))],
      noContext |-> {}] :
        <<i, absentRows>> \in ((DOMAIN GRID_SIZES) \X {{}}) \cup {<<1, {0}>>}}

PipeInit ==
    /\ IdleJobs
    /\ app = NoApp
    /\ tilePlan = NoPlan
    /\ bench = NoBench
    /\ pipe \in CutPipeInputs \cup FullPipeInputs

\* processTile's try block for every fetched tile: isTileBlack decides
\* whether the slot holds the image or null.  For the tiles of `lost`,
\* isTileBlack got no 2D context.
PipeClassify ==
    /\ pipe.stage = "fetched"
    /\ \E lost \in {{}} \cup {{k} : k \in {m \in DOMAIN pipe.fetched : pipe.fetched[m] # Null}} :
          pipe' = [stage |-> "classified", side |-> pipe.side, g |-> pipe.g,
                   images |-> [k \in DOMAIN pipe.fetched |->
                                 IF pipe.fetched[k] = Null THEN Null
                                 ELSE IF isTileBlack(TileDark(pipe.fetched[k][1]), k \notin lost)
                                      THEN Null
                                      ELSE pipe.fetched[k]],
                   noContext |-> lost]
    /\ UNCHANGED <<jobVars, calls, tilePlan, bench, app>>

\* stitchStreetViewImage after `await Promise.all(workers)`: the canvas and
\* its context (or the throw), fill and draw, cropBlackEdges,
\* removeHorizontalWrap, toDataURL.  The flags say which getContext calls
\* gave a context.
PipeStitch ==
    /\ pipe.stage = "classified"
    /\ \E ctx \in BOOLEAN :
          IF ~ctx
          THEN pipe' = [stage |-> "rejected", side |-> pipe.side, g |-> pipe.g,
                        images |-> pipe.images, noContext |-> pipe.noContext,
                        error |-> "Could not get 2D canvas context."]
          ELSE \E composite \in {CompositeCanvas(pipe.g, pipe.images, pipe.side)} :
                  \E cropCtx, cropOut \in BOOLEAN :
                  \E cropped \in {cropBlackEdges(composite, cropCtx, cropOut)} :
                  \E wrapCtx, wrapOut \in BOOLEAN :
                  \E final \in {removeHorizontalWrap(cropped, wrapCtx, wrapOut)} :
                      pipe' = [stage |-> "resolved", side |-> pipe.side, g |-> pipe.g,
                               images |-> pipe.images, noContext |-> pipe.noContext,
                               cropCtx |-> cropCtx, cropOut |-> cropOut,
                               wrapCtx |-> wrapCtx, wrapOut |-> wrapOut,
                               composite |-> composite, cropped |-> cropped,
                               final |-> final, result |-> toDataURL(final)]
    /\ UNCHANGED <<jobVars, calls, tilePlan, bench, app>>

PipeNext == PipeClassify \/ PipeStitch

PipeSpec == PipeInit /\ [][PipeNext]_vars

----------------------------------------------------------------------------
(* Properties of the way from the tiles to the encoded image *)

PipeSettled == pipe.stage \in {"resolved", "rejected"}

\* Every coordinate's slot is null: all tiles are absent.
AllAbsent == \A k \in DOMAIN pipe.images : pipe.images[k] = Null

\* The original C12: a 2D context that cannot be obtained, in the compositor,
\* the tile classifier, the border cropper or the wrap-seam detector, is
\* fatal: a job that settled after such a failure was rejected and returned no
\* encoded image.
C12_AnyContextFailureIsFatal ==
    pipe.stage = "resolved" =>
        /\ pipe.noContext = {}
        /\ pipe.cropCtx /\ pipe.cropOut
        /\ pipe.wrapCtx /\ pipe.wrapOut

\* C12 as amended: only the compositor's missing context is fatal (the job
\* is rejected with "Could not get 2D canvas context." and returns no image).
\* A tile the classifier had no context for is kept as an image; a cropper or
\* a wrap-seam detector without a context, for its canvas or for the cropped
\* one, hands back the canvas it was given; and the job resolves with the
\* encoding of what the wrap-seam detector returned.
C12_OnlyCompositorContextIsFatal ==
    /\ pipe.stage = "rejected" =>
          /\ pipe.error = "Could not get 2D canvas context."
          /\ "result" \notin DOMAIN pipe
    /\ pipe.stage \in {"classified", "resolved", "rejected"} =>
          \A k \in pipe.noContext : pipe.images[k] # Null
    /\ pipe.stage = "classified" =>
          /\ ENABLED (PipeStitch /\ pipe'.stage = "rejected")
          /\ ENABLED (PipeStitch /\ pipe'.stage = "resolved"
                        /\ ~pipe'.cropCtx /\ ~pipe'.wrapCtx)
    /\ pipe.stage = "resolved" =>
          /\ pipe.composite.width = pipe.g.x * pipe.side
          /\ pipe.composite.height = pipe.g.y * pipe.side
          /\ (~pipe.cropCtx \/ ~pipe.cropOut) => pipe.cropped = pipe.composite
          /\ (~pipe.wrapCtx \/ ~pipe.wrapOut) => pipe.final = pipe.cropped
          /\ pipe.result = toDataURL(pipe.final)

\* C12 witness: a job resolved although the classifier had no context for a
\* black tile, which it kept, and neither the cropper nor the wrap-seam
\* detector had a context.
C12_Witness ==
    /\ pipe.stage = "resolved"
    /\ \E k \in pipe.noContext :
          pipe.images[k] = Some(Raster(pipe.side, pipe.side, Solid(Black)))
    /\ ~pipe.cropCtx
    /\ ~pipe.wrapCtx
    /\ pipe.final = pipe.composite

----------------------------------------------------------------------------
(* The resolution catalog, and jobs on its grids uncut *)

\* const labels = ["High", "Maximum"]
labels == <<"High", "Maximum">>

\* Mutant of getAvailableResolutions: tileCount adds the grid's sides
\* (grid.x + grid.y).
getAvailableResolutionsSum ==
    [index \in DOMAIN GRID_SIZES |->
        LET g == GRID_SIZES[index]
        IN  [zoom |-> g.zoom,
             width |-> g.x * TILE_SIZE,
             height |-> g.y * TILE_SIZE,
             label |-> IF index \in DOMAIN labels THEN labels[index]
                       ELSE "Zoom " \o ToString(g.zoom),
             tileCount |-> g.x + g.y]]

\* getAvailableResolutions(): one Resolution per entry of GRID_SIZES, in order.
getAvailableResolutions ==
    [index \in DOMAIN GRID_SIZES |->
        LET g == GRID_SIZES[index]
        IN  [zoom |-> g.zoom,
             width |-> g.x * TILE_SIZE,
             height |-> g.y * TILE_SIZE,
             label |-> IF index \in DOMAIN labels THEN labels[index]
                       ELSE "Zoom " \o ToString(g.zoom),
             tileCount |-> g.x * g.y]]

\* The largest grid sides of the catalog: no cut.
CatalogCols == CHOOSE n \in {GRID_SIZES[i].x : i \in DOMAIN GRID_SIZES} :
                   \A i \in DOMAIN GRID_SIZES : GRID_SIZES[i].x <= n

CatalogRows == CHOOSE n \in {GRID_SIZES[i].y : i \in DOMAIN GRID_SIZES} :
                   \A i \in DOMAIN GRID_SIZES : GRID_SIZES[i].y <= n

\* One call of stitchStreetViewImage for a catalog zoom, with the catalog's
\* grid and the whole pool.
CatalogStart ==
    \E panoId \in PanoIds, zoom \in CatalogZooms :
        StartJob("jobA", panoId, zoom, CatalogCols, CatalogRows, CONCURRENT_DOWNLOADS)

\* The tile server answers in the order it was asked, every time with an
\* image the classifier keeps: the load event of the tile started earliest.
CatalogLoad ==
    /\ TileLoad("jobA")
    /\ lastSettle'["jobA"] =
          [key |-> Key(processed["jobA"][loadedTiles["jobA"] + 1]),
           fetched |-> TRUE, blank |-> FALSE]

CatalogNext == CatalogStart \/ CatalogLoad \/ Finish

CatalogSpec == Init /\ [][CatalogNext]_vars

\* C13: getAvailableResolutions returns exactly zoom 3 as 4096 x 2048 with 32
\* tiles and zoom 4 as 8192 x 4096 with 128 tiles; every entry has
\* tileCount = columns * rows, width = columns * 512, height = rows * 512 of
\* its grid; and the total of a stitch job (totalTiles, the total of every
\* progress report, the tiles counted when the workers have returned) is the
\* tileCount of the entry of the job's zoom.
C13_CatalogMatchesJobTotal ==
    LET res == getAvailableResolutions
    IN  /\ DOMAIN res = 1..2
        /\ res[1].zoom = 3 /\ res[1].width = 4096 /\ res[1].height = 2048
        /\ res[1].tileCount = 32
        /\ res[2].zoom = 4 /\ res[2].width = 8192 /\ res[2].height = 4096
        /\ res[2].tileCount = 128
        /\ \A i \in DOMAIN res :
              /\ res[i].zoom = GRID_SIZES[i].zoom
              /\ res[i].tileCount = GRID_SIZES[i].x * GRID_SIZES[i].y
              /\ res[i].width = GRID_SIZES[i].x * 512
              /\ res[i].height = GRID_SIZES[i].y * 512
              /\ res[i].width * res[i].height = res[i].tileCount * 512 * 512
        /\ \A j \in JobIds : HasGrid(j) =>
              \E i \in DOMAIN res :
                  /\ res[i].zoom = jobArgs[j].zoom
                  /\ totalTiles[j] = res[i].tileCount
                  /\ Len(queue[j]) + Len(processed[j]) = res[i].tileCount
                  /\ \A n \in DOMAIN progressLog[j] :
                        progressLog[j][n].progress.total = res[i].tileCount
                  /\ AllWorkersDone(j) =>
                        /\ loadedTiles[j] = res[i].tileCount
                        /\ Cardinality(DOMAIN images[j]) = res[i].tileCount
                  /\ jobState[j] = "resolved" =>
                        /\ canvas[j].width = res[i].width
                        /\ canvas[j].height = res[i].height

\* C13 witness: a zoom 4 job resolved with all 128 tiles of its grid counted.
C13_Witness ==
    /\ jobArgs["jobA"].zoom = 4
    /\ jobState["jobA"] = "resolved"
    /\ loadedTiles["jobA"] = 128
    /\ totalTiles["jobA"] = getAvailableResolutions[2].tileCount

----------------------------------------------------------------------------
(* The pixel functions on their own, each applied to an image drawn at the   *)
(* start                                                                     *)

\* Small images: every size up to MaxSide x MaxSide, with up to MaxSpots
\* pixels above the threshold.
MaxSide == 3

MaxSpots == 6

GrayOf(v) == <<v, v, v>>

\* Every image of a size with bright (Bluish) pixels on Dim, the bright ones
\* at most MaxSpots.
SpotImages(w, h) ==
    {Raster(w, h, Spots(Dim, Bluish, at)) :
        at \in {a \in SUBSET ((0..(w - 1)) \X (0..(h - 1))) : Cardinality(a) <= MaxSpots}}

SmallImages(side) ==
    UNION {SpotImages(w, h) : <<w, h>> \in (1..side) \X (1..side)}

\* Images of 50 and 51 sampled pixels (16 wide: the classifier reads column 0
\* of every row), bright at some of three places, two of them sampled.
TallImages ==
    UNION {{Raster(16, h, Spots(Dim, Bluish, at)) :
               at \in SUBSET {<<0, 0>>, <<0, 1>>, <<1, 0>>}} : h \in {50, 51}}

\* Surfaces for the wrap-seam detector, for an image of width w: one colour;
\* a left half of three bands, repeated as the right half; bands that repeat
\* nowhere, far from the reference strip, or with a near match (difference 10)
\* from column 600, or with a strict match (difference 3) from column 700, or
\* differing from the strip in one channel.
WidePaints(w) ==
    {Bands(1, <<<<0, Gray>>>>),
     Bands(w \div 2, <<<<0, GrayOf(100)>>, <<100, GrayOf(180)>>, <<300, GrayOf(40)>>>>),
     Bands(2 * w, <<<<0, GrayOf(100)>>, <<256, GrayOf(120)>>, <<700, GrayOf(160)>>>>),
     Bands(2 * w, <<<<0, GrayOf(100)>>, <<256, GrayOf(120)>>, <<600, GrayOf(110)>>,
                    <<800, GrayOf(130)>>>>),
     Bands(2 * w, <<<<0, GrayOf(100)>>, <<256, GrayOf(120)>>, <<600, GrayOf(110)>>,
                    <<700, GrayOf(103)>>>>),
     Bands(2 * w, <<<<0, GrayOf(100)>>, <<256, <<100, 100, 160>>>>,
                    <<600, <<100, 130, 100>>>>>>)}

\* Widths just under and at the least width searched, with heights of no,
\* one and two rows read; and two widths of at least 1024, whose halves start
\* on and off the scan's stride, with heights of one and two rows read.
WideSizes == ({511, 512} \X {2, 3, 23}) \cup ({1024, 1026} \X {3, 23})

WideImages ==
    {Raster(w, h, paint) :
        <<w, h, paint>> \in
            UNION {{<<ww, hh, pp>> : pp \in WidePaints(ww)} : <<ww, hh>> \in WideSizes}}

\* One row or one column, of a length about where one bright sample stops
\* being an early exit (80), where it starts being tolerated as noise (at 51
\* samples, length 201), and longer; bright at some of four places, three of
\* them sampled.
LineImages ==
    UNION {{Raster(n, 1, Spots(Dim, Bluish, {<<p, 0>> : p \in at})),
            Raster(1, n, Spots(Dim, Bluish, {<<0, p>> : p \in at}))} :
              <<n, at>> \in {79, 80, 81, 196, 197, 200, 201, 400} \X SUBSET {0, 4, 5, 8}}

BenchInputs(side) == SmallImages(side) \cup TallImages \cup WideImages \cup LineImages

CanvasInit ==
    /\ IdleJobs
    /\ app = NoApp
    /\ tilePlan = NoPlan
    /\ pipe = NoPipe
    /\ bench \in {[stage |-> "input", input |-> img] : img \in BenchInputs(MaxSide)}

\* isTileBlack(img)
BenchClassify ==
    /\ bench.stage = "input"
    /\ \E ctxOk \in BOOLEAN :
          bench' = [stage |-> "classified", input |-> bench.input, ctxOk |-> ctxOk,
                    isBlack |-> isTileBlack(TileDark(bench.input), ctxOk)]
    /\ UNCHANGED <<jobVars, calls, tilePlan, pipe, app>>

\* cropBlackEdges(canvas)
BenchCrop ==
    /\ bench.stage = "input"
    /\ \E ctxOk, cctxOk \in BOOLEAN :
          bench' = [stage |-> "cropped", input |-> bench.input,
                    ctxOk |-> ctxOk, cctxOk |-> cctxOk,
                    output |-> cropBlackEdges(bench.input, ctxOk, cctxOk)]
    /\ UNCHANGED <<jobVars, calls, tilePlan, pipe, app>>

\* cropBlackEdges(cropBlackEdges(canvas)), every context obtained.
BenchCropAgain ==
    /\ bench.stage = "cropped"
    /\ bench.ctxOk /\ bench.cctxOk
    /\ bench' = [stage |-> "recropped", input |-> bench.input, first |-> bench.output,
                 output |-> cropBlackEdges(bench.output, TRUE, TRUE)]
    /\ UNCHANGED <<jobVars, calls, tilePlan, pipe, app>>

\* removeHorizontalWrap(canvas); scan keeps bestMatchX and minDiff as the
\* function left them (as initialised if it returned before the scan).
BenchUnwrap ==
    /\ bench.stage = "input"
    /\ \E ctxOk, cctxOk \in BOOLEAN :
          bench' = [stage |-> "unwrapped", input |-> bench.input,
                    ctxOk |-> ctxOk, cctxOk |-> cctxOk,
                    scan |-> IF ctxOk /\ ~WrapSkips(bench.input)
                             THEN WrapScan(bench.input) ELSE WrapStart,
                    output |-> removeHorizontalWrap(bench.input, ctxOk, cctxOk)]
    /\ UNCHANGED <<jobVars, calls, tilePlan, pipe, app>>

\* isRowBlack(y) or isColBlack(x) for one row or column of the canvas (a
\* context obtained); early keeps whether the loop was left by its
\* `return false`.
BenchScanLine ==
    /\ bench.stage = "input"
    /\ \E along \in {"row", "col"} :
       \E at \in 0..((IF along = "row" THEN bench.input.height ELSE bench.input.width) - 1) :
          bench' = [stage |-> "scanned", input |-> bench.input, along |-> along, at |-> at,
                    early |-> PixelScan(bench.input, along, at, 0,
                                 (4 * (IF along = "row" THEN bench.input.width
                                       ELSE bench.input.height) - 1) \div 16,
                                 ScanStart).done,
                    black |-> IF along = "row" THEN isRowBlack(bench.input, at)
                                               ELSE isColBlack(bench.input, at)]
    /\ UNCHANGED <<jobVars, calls, tilePlan, pipe, app>>

CanvasNext == BenchClassify \/ BenchCrop \/ BenchCropAgain \/ BenchUnwrap \/ BenchScanLine

CanvasSpec == CanvasInit /\ [][CanvasNext]_vars

----------------------------------------------------------------------------
(* Properties of the pixel functions                                         *)

\* C14: cropBlackEdges is idempotent: applied to its own output, it returns
\* an image with the same bounds and the same pixels.
C14_CropIsIdempotent ==
    bench.stage = "recropped" => SamePixels(bench.output, bench.first)

\* The pixels of an image that are non-black, among those at the places ps.
BrightAmong(img, ps) == {q \in ps : NonBlack(PixelAt(img, q[1], q[2]))}

AllPixels(img) == (0..(img.width - 1)) \X (0..(img.height - 1))

\* Every 16th pixel in row-major order, the first included.
StridePixels(img) == {q \in AllPixels(img) : (q[2] * img.width + q[1]) % 16 = 0}

----------------------------------------------------------------------------
(* Properties of the composite and of what the cropper and the wrap-seam     *)
(* detector make of it                                                       *)

\* Every slot of row y is null.
RowAbsent(y) ==
    \A c \in CoordSet(pipe.g) : c.y = y => pipe.images[Key(c)] = Null

\* Every slot outside row 0 holds a solid image of a non-black colour.
OtherRowsNonBlack ==
    \A c \in CoordSet(pipe.g) :
        c.y # 0 =>
            \E colour \in {Gray, Dim, Black, Bluish} :
                /\ NonBlack(colour)
                /\ pipe.images[Key(c)] = Some(Raster(pipe.side, pipe.side, Solid(colour)))

\* Every slot holds the same solid gray image.
AllGray ==
    \A k \in DOMAIN pipe.images :
        pipe.images[k] = Some(Raster(pipe.side, pipe.side, Solid(Gray)))

\* C16: when every tile of a job is absent, the composite is sentinel black
\* at every pixel and of the full grid size, and cropBlackEdges returns that
\* canvas itself, unmodified: same width and height, never an empty or
\* negative-sized image.
C16_AllAbsentCompositeIsLeftWhole ==
    pipe.stage = "resolved" /\ AllAbsent =>
        /\ pipe.composite.width = pipe.g.x * pipe.side
        /\ pipe.composite.height = pipe.g.y * pipe.side
        /\ \A q \in AllPixels(pipe.composite) :
              PixelAt(pipe.composite, q[1], q[2]) = Black
        /\ pipe.cropped = pipe.composite
        /\ pipe.cropped.width > 0 /\ pipe.cropped.height > 0

\* A job of several tiles, all absent, resolved with the cropper's contexts
\* obtained: its scan collapsed.
C16_Witness ==
    /\ pipe.stage = "resolved"
    /\ AllAbsent
    /\ pipe.g.x * pipe.g.y > 1
    /\ pipe.cropCtx /\ pipe.cropOut
    /\ LET b == CropBounds(pipe.composite)
       IN  b.top > b.bottom /\ b.left > b.right
    /\ pipe.cropped = pipe.composite

\* C17: for a grid whose row 0 is all absent and whose other tiles are
\* present, of a non-black colour, cropBlackEdges (its contexts obtained)
\* trims exactly the top band of one tile's height: top is the tile side
\* (512), left stays 0, and the output is (columns * side) wide and
\* ((rows - 1) * side) high, so bottom and right stay at the edges.
C17_AbsentTopRowIsTrimmedExactly ==
    /\ pipe.stage = "resolved"
    /\ pipe.g.y >= 2
    /\ RowAbsent(0)
    /\ OtherRowsNonBlack
    /\ pipe.cropCtx /\ pipe.cropOut
    => /\ pipe.cropped.oy = pipe.side
       /\ pipe.cropped.ox = 0
       /\ pipe.cropped.width = pipe.g.x * pipe.side
       /\ pipe.cropped.height = (pipe.g.y - 1) * pipe.side
       /\ pipe.cropped.paint = pipe.composite.paint

\* The first catalog grid at 512 pixels a tile, row 0 absent and the rest
\* gray: cropped from y = 512 to 4096 x 1536.
C17_Witness ==
    /\ pipe.stage = "resolved"
    /\ pipe.side = 512
    /\ pipe.g = GRID_SIZES[1]
    /\ RowAbsent(0)
    /\ OtherRowsNonBlack
    /\ pipe.cropCtx /\ pipe.cropOut
    /\ pipe.cropped.oy = 512
    /\ pipe.cropped.width = 4096
    /\ pipe.cropped.height = 1536

\* C18: for the 8x4 grid of 32 identical solid-gray tiles, the composite is
\* 4096 x 2048, cropBlackEdges makes no change, and removeHorizontalWrap
\* finds no match: the final image is 4096 wide and 2048 high.
C18_SolidGrayGridKeepsItsSize ==
    /\ pipe.stage = "resolved"
    /\ pipe.side = 512
    /\ pipe.g.x = 8 /\ pipe.g.y = 4
    /\ AllGray
    => /\ pipe.composite.width = 4096 /\ pipe.composite.height = 2048
       /\ pipe.cropped = pipe.composite
       /\ pipe.final.width = 4096 /\ pipe.final.height = 2048

----------------------------------------------------------------------------
(* Properties of the wrap-seam detector                                      *)

\* The right half of the image is a pixel copy of its left half.
RightHalfCopiesLeft(r) ==
    /\ r.width % 2 = 0
    /\ \A x \in 0..(r.width \div 2 - 1), y \in 0..(r.height - 1) :
          PixelAt(r, x, y) = PixelAt(r, x + r.width \div 2, y)

\* C19: for every image of width w >= 1024 whose right half is an exact
\* pixel copy of its left half, removeHorizontalWrap (its contexts obtained)
\* returns an image cropped to about half the width, within one search stride
\* (2) of w / 2, with the height unchanged.
C19_HalfCopyIsCroppedToHalf ==
    /\ bench.stage = "unwrapped"
    /\ bench.ctxOk /\ bench.cctxOk
    /\ bench.input.width >= 1024
    /\ RightHalfCopiesLeft(bench.input)
    => /\ Abs(2 * bench.output.width - bench.input.width) <= 2 * 2
       /\ bench.output.height = bench.input.height

\* The places of the reference strip that are compared: every 4th of its W
\* columns, in every 8th row of the band read.
StripPlaces(r) ==
    {q \in (0..(W - 1)) \X (0..(WrapScanHeight(r) - 1)) : q[1] % 4 = 0 /\ q[2] % 8 = 0}

\* The sum over the places of the channel differences between the strip and
\* the columns from offset x on.
RECURSIVE StripDiffOver(_, _, _)
StripDiffOver(r, x, places) ==
    IF places = {} THEN 0
    ELSE LET q == CHOOSE p \in places : TRUE
         IN  PixelDiff(PixelAt(r, q[1], WrapStartY(r) + q[2]),
                       PixelAt(r, x + q[1], WrapStartY(r) + q[2]))
             + StripDiffOver(r, x, places \ {q})

\* The candidate offsets of the search: startX + dx, dx = 0, 2, ... while
\* dx < searchWidth - W; none for an image too small to search.
WrapOffsets(r) ==
    IF WrapSkips(r) THEN {}
    ELSE {x \in WrapStartX(r)..(r.width - W - 1) : (x - WrapStartX(r)) % 2 = 0}

\* C20: removeHorizontalWrap (its contexts obtained) returns the input
\* unmodified if and only if the image is too small to search or no scanned
\* candidate offset has an average per-channel difference below 15 against
\* the reference strip.  Otherwise it crops the width to the scanned offset
\* with the least average difference (the first of them), and bestMatchX is
\* always the offset whose difference minDiff holds, also when the scan
\* stopped at a candidate below the strict threshold 8: the scanned offsets
\* are those up to the first one below 8.
C20_WrapCropsToBestOffset ==
    bench.stage = "unwrapped" /\ bench.ctxOk /\ bench.cctxOk =>
        LET r == bench.input
            st == bench.scan
            n == Cardinality(StripPlaces(r))
            d == [x \in WrapOffsets(r) |-> StripDiffOver(r, x, StripPlaces(r))]
            strict == {x \in WrapOffsets(r) : d[x] < 8 * 3 * n}
            scanned == {x \in WrapOffsets(r) : \A s \in strict : x <= s}
            X == bench.output.width
        IN  /\ bench.output = r <=> \A x \in scanned : ~(d[x] < 15 * 3 * n)
            /\ bench.output # r =>
                  /\ bench.output = CropTo(r, 0, 0, X, r.height)
                  /\ X \in scanned
                  /\ \A x \in scanned : d[X] <= d[x] /\ (d[x] = d[X] => X <= x)
                  /\ st.bestMatchX = X
            /\ st.scanned = Cardinality(scanned)
            /\ scanned # {} =>
                  /\ st.bestMatchX \in scanned
                  /\ st.minDiff = Some(d[st.bestMatchX])
            /\ st.done <=> strict # {}
            /\ st.done => st.bestMatchX \in strict

\* A scan that met a candidate below 15, went on, and stopped at a later
\* one below 8, to which the image was cropped.
C20_Witness ==
    /\ bench.stage = "unwrapped"
    /\ bench.ctxOk /\ bench.cctxOk
    /\ bench.scan.done
    /\ bench.output.width = bench.scan.bestMatchX
    /\ bench.output.width < bench.input.width
    /\ \E x \in WrapOffsets(bench.input) :
          /\ x < bench.scan.bestMatchX
          /\ StripDiffOver(bench.input, x, StripPlaces(bench.input))
                < 15 * 3 * Cardinality(StripPlaces(bench.input))

----------------------------------------------------------------------------
(* One job on a grid of several rows                                         *)

\* The job's grid is the catalog's grid cut to two rows of at most OrderCols
\* tiles; its pool is cut to at most MaxWorkers workers.
OrderCols == 2

OrderStart ==
    \E panoId \in PanoIds, zoom \in CatalogZooms :
        StartJob("jobA", panoId, zoom, OrderCols, 2, MaxWorkers)

OrderNext == OrderStart \/ Load \/ Error \/ Retry \/ Finish

OrderSpec == Init /\ [][OrderNext]_vars

\* Coordinate a comes before coordinate b row by row: in an earlier row, or
\* in the same row further left.
RowMajorBefore(a, b) == a.y < b.y \/ (a.y = b.y /\ a.x < b.x)

\* The coordinates of the job's grid.
GridCoords(j) == {c \in [x : 0..(grid[j].x - 1), y : 0..(grid[j].y - 1)] : TRUE}

\* C21: tile fetches are started in row-major FIFO order: the fetches
\* started so far are those of the first coordinates of the row-by-row
\* enumeration, in that order, so a coordinate that precedes another was
\* started no later; the coordinates not started wait in the queue in that
\* order; and the order of settling is unconstrained: of the fetches loading,
\* any one can be the next to settle.
C21_FetchesStartRowMajor ==
    jobState["jobA"] \in {"running", "resolved"} =>
        LET started == processed["jobA"]
            waiting == queue["jobA"]
        IN  /\ \A i, k \in DOMAIN started :
                  i < k <=> RowMajorBefore(started[i], started[k])
            /\ \A i, k \in DOMAIN waiting :
                  i < k <=> RowMajorBefore(waiting[i], waiting[k])
            /\ \A i \in DOMAIN started, k \in DOMAIN waiting :
                  RowMajorBefore(started[i], waiting[k])
            /\ {started[i] : i \in DOMAIN started} \cup {waiting[k] : k \in DOMAIN waiting}
                  = GridCoords("jobA")
            /\ jobState["jobA"] = "running" /\ ~JoinPending =>
                  \A t \in fetches["jobA"] :
                      t.fetch.state = "loading" =>
                          ENABLED (Load /\ lastSettle'["jobA"].key = Key(t.coord))

\* A grid of two rows where a tile of row 1 has settled while a tile of row
\* 0, started before it, is still loading.
C21_Witness ==
    /\ jobState["jobA"] = "running"
    /\ grid["jobA"].y >= 2
    /\ \E t \in fetches["jobA"] :
          /\ t.coord.y = 0
          /\ t.fetch.state = "loading"
          /\ \E k \in DOMAIN images["jobA"] :
                \E c \in GridCoords("jobA") :
                    Key(c) = k /\ c.y = 1 /\ RowMajorBefore(t.coord, c)

----------------------------------------------------------------------------
(* The early exit of isRowBlack and isColBlack                               *)

\* The pixels of a row or column that its test samples: every 4th, the first
\* included.
LineSamples(r, along, at) ==
    IF along = "row"
    THEN {<<x, at>> : x \in {p \in 0..(r.width - 1) : p % 4 = 0}}
    ELSE {<<at, y>> : y \in {p \in 0..(r.height - 1) : p % 4 = 0}}

\* The full test alone: fewer than 2% of the sampled pixels are non-black.
FullLineTest(r, along, at) ==
    50 * Cardinality(BrightAmong(r, LineSamples(r, along, at)))
        < Cardinality(LineSamples(r, along, at))

\* C22: the early exit of isRowBlack and isColBlack is a pure optimisation:
\* for every row and column, the result with the early exit equals the result
\* of the full test alone (sampled non-black fraction < 2%), so a line left
\* by the early exit is never one the full test would call background.
C22_EarlyExitIsPureOptimisation ==
    bench.stage = "scanned" =>
        /\ bench.black = FullLineTest(bench.input, bench.along, bench.at)
        /\ bench.early => ~FullLineTest(bench.input, bench.along, bench.at)

\* A line with bright samples, too few for the early exit, that the loop
\* read to its end and the final test found non-black.
C22_Witness ==
    /\ bench.stage = "scanned"
    /\ ~bench.early
    /\ ~bench.black
    /\ BrightAmong(bench.input, LineSamples(bench.input, bench.along, bench.at)) # {}

----------------------------------------------------------------------------
(* The tile result map and the loaded counter                                *)

\* C23: at every onProgress emission {k, total} of a stitch job exactly k
\* coordinates have a result slot (an image or null) in the tile result map:
\* a tile's slot is stored before the tile is counted, so the counter never
\* counts a tile whose slot is unset, and between the emissions the counter
\* is the number of slots.
C23_ReportedTilesAreStored ==
    /\ \A i \in DOMAIN progressLog["jobA"] :
          progressLog["jobA"][i].stored = progressLog["jobA"][i].progress.loaded
    /\ loadedTiles["jobA"] = Cardinality(DOMAIN images["jobA"])
    /\ jobState["jobA"] \in {"running", "resolved"} =>
          DOMAIN images["jobA"] \subseteq GridKeys(grid["jobA"])

\* A job still running that has reported two tiles, one stored as an image
\* and one as null.
C23_Witness ==
    /\ jobState["jobA"] = "running"
    /\ fetches["jobA"] # {}
    /\ progressLog["jobA"][Len(progressLog["jobA"])].progress.loaded = 2
    /\ progressLog["jobA"][Len(progressLog["jobA"])].stored = 2
    /\ \E a, b \in DOMAIN images["jobA"] :
          images["jobA"][a] = Null /\ images["jobA"][b] # Null


\* The workers of the job that are inside processTile, awaiting a fetch.
InFlight(j) == {w \in DOMAIN workers[j] : workers[j][w] = "awaiting"}

\* C24: in every reachable state of a stitch job the tiles are conserved:
\* (coordinates in the queue) + (coordinates in flight in some worker) +
\* (loaded count) = total, each worker in flight holding one coordinate; a
\* worker has returned only when the queue is empty; so when the workers
\* have joined every coordinate has been processed and has its slot.
C24_TilesAreConserved ==
    jobState["jobA"] \in {"running", "resolved"} =>
        /\ Len(queue["jobA"]) + Cardinality(InFlight("jobA")) + loadedTiles["jobA"]
              = totalTiles["jobA"]
        /\ Cardinality(fetches["jobA"]) = Cardinality(InFlight("jobA"))
        /\ {t.worker : t \in fetches["jobA"]} = InFlight("jobA")
        /\ totalTiles["jobA"] = grid["jobA"].x * grid["jobA"].y
        /\ (\E w \in DOMAIN workers["jobA"] : workers["jobA"][w] = "done")
              => queue["jobA"] = <<>>
        /\ AllWorkersDone("jobA") =>
              /\ loadedTiles["jobA"] = totalTiles["jobA"]
              /\ {Key(processed["jobA"][i]) : i \in DOMAIN processed["jobA"]}
                    = GridKeys(grid["jobA"])
              /\ DOMAIN images["jobA"] = GridKeys(grid["jobA"])

\* One worker has returned on an empty queue while another is still in
\* flight, with tiles already loaded.
C24_Witness ==
    /\ jobState["jobA"] = "running"
    /\ \E w \in DOMAIN workers["jobA"] : workers["jobA"][w] = "done"
    /\ Cardinality(InFlight("jobA")) = 1
    /\ loadedTiles["jobA"] = totalTiles["jobA"] - 1
    /\ totalTiles["jobA"] >= 4

----------------------------------------------------------------------------
(* The page: App (handleSubmit, handleStitchRequest), ImageDisplay and its   *)
(* ResolutionSelector.  A stitch job is here a pending promise that settles  *)
(* at some later task; an action is one event handler or continuation with   *)
(* the render and the effects that follow it.                                *)

\* At most MaxAppJobs stitch jobs are started from the page.
MaxAppJobs == 3

AppPanoIds == {"panoX", "panoY"}

\* The URLs submitted, by what the two id patterns find in their text:
\* pano is the match of /pano=([a-zA-Z0-9_-]+)/ and data the match of
\* /!1s([a-zA-Z0-9_-]+)(?:!|&)/, "" where the pattern does not match.
AppUrls ==
    {[pano |-> "panoX", data |-> ""], [pano |-> "", data |-> "panoY"],
     [pano |-> "panoX", data |-> "panoY"], [pano |-> "", data |-> ""]}

\* extractUrlData(url).panoId: the first pattern that matches gives the id;
\* null when neither does.  (coords play no part in what is stitched.)
extractUrlData(url) ==
    [panoId |-> IF url.pano # "" THEN Some(url.pano)
                ELSE IF url.data # "" THEN Some(url.data)
                ELSE Null]

\* The data URL a stitch job resolves with, by the job it is the result of.
StitchedUrl(job) == [panoId |-> job.panoId, zoom |-> job.zoom]

\* The useState initial values of App, ImageDisplay and ResolutionSelector;
\* pending and started keep the stitch jobs not yet settled and their count.
AppStart ==
    [isLoading |-> FALSE, error |-> "", panoId |-> "", resolutions |-> <<>>,
     viewerImageUrl |-> Null, currentImageUrl |-> Null,
     stitchingState |-> EmptyMap, pending |-> {}, started |-> 0]

\* {panoId && resolutions.length > 0 && !isLoading && <ResolutionSelector .../>}
SelectorShown(a) == a.panoId # "" /\ Len(a.resolutions) > 0 /\ ~a.isLoading

\* The render after a task changed the state from old to new: the effect on
\* [viewerImageUrl] sets currentImageUrl when viewerImageUrl changed; a
\* ResolutionSelector no longer rendered is unmounted, its state is gone and
\* the jobs it started have no live component to report to.
Rendered(old, new) ==
    LET effect == IF new.viewerImageUrl # old.viewerImageUrl
                  THEN [new EXCEPT !.currentImageUrl = new.viewerImageUrl]
                  ELSE new
    IN  IF SelectorShown(old) /\ ~SelectorShown(effect)
        THEN [effect EXCEPT !.stitchingState = EmptyMap,
                            !.pending = {IF j.origin = "generate"
                                         THEN [j EXCEPT !.live = FALSE] ELSE j :
                                           j \in effect.pending}]
        ELSE effect

AppInit ==
    /\ IdleJobs
    /\ tilePlan = NoPlan
    /\ bench = NoBench
    /\ pipe = NoPipe
    /\ app = AppStart

\* resolutions.find(r => r.zoom === 3) || resolutions[0]
DefaultZoom(resolutions) ==
    IF \E i \in DOMAIN resolutions : resolutions[i].zoom = 3 THEN 3
    ELSE resolutions[1].zoom

\* The form is submitted (URLInput calls onSubmit only when !isLoading):
\* handleSubmit up to its await, or to its end when the URL holds no id.
AppSubmit ==
    /\ ~app.isLoading
    /\ app.started < MaxAppJobs
    /\ \E url \in AppUrls :
          LET ex == extractUrlData(url)
              reset == [app EXCEPT !.isLoading = FALSE, !.error = "", !.panoId = "",
                                   !.resolutions = <<>>, !.viewerImageUrl = Null]
              job == [id |-> app.started + 1, origin |-> "submit", panoId |-> ex.panoId[1],
                      zoom |-> DefaultZoom(getAvailableResolutions), live |-> TRUE]
          IN  app' = Rendered(app,
                  IF ex.panoId = Null
                  THEN [reset EXCEPT !.error =
                           "Could not find a valid Street View Panorama ID in the URL."]
                  ELSE [reset EXCEPT !.isLoading = TRUE,
                                     !.panoId = ex.panoId[1],
                                     !.resolutions = getAvailableResolutions,
                                     !.pending = app.pending \cup {job},
                                     !.started = app.started + 1])
    /\ UNCHANGED <<jobVars, calls, tilePlan, bench, pipe>>

\* The stitch job awaited by handleSubmit settles: setViewerImageUrl, or
\* setError; finally setIsLoading(false).
AppSubmitSettle ==
    /\ \E job \in app.pending, ok \in BOOLEAN :
          /\ job.origin = "submit"
          /\ app' = Rendered(app,
                IF ok
                THEN [app EXCEPT !.viewerImageUrl = Some(StitchedUrl(job)),
                                 !.isLoading = FALSE,
                                 !.pending = app.pending \ {job}]
                ELSE [app EXCEPT !.error = "Could not get 2D canvas context.",
                                 !.isLoading = FALSE,
                                 !.pending = app.pending \ {job}])
    /\ UNCHANGED <<jobVars, calls, tilePlan, bench, pipe>>

\* A click on a resolution's button: handleGenerateClick up to its await;
\* handleStitchRequest starts the job for the panoId of this render.
AppGenerate ==
    /\ SelectorShown(app)
    /\ app.started < MaxAppJobs
    /\ \E i \in DOMAIN app.resolutions :
          LET zoom == app.resolutions[i].zoom
              job == [id |-> app.started + 1, origin |-> "generate", panoId |-> app.panoId,
                      zoom |-> zoom, live |-> TRUE]
          IN  /\ ~(zoom \in DOMAIN app.stitchingState /\ app.stitchingState[zoom].isLoading)
              /\ app' = Rendered(app,
                    [app EXCEPT !.stitchingState =
                                    (zoom :> [isLoading |-> TRUE, imageUrl |-> Null])
                                        @@ app.stitchingState,
                                !.pending = app.pending \cup {job},
                                !.started = app.started + 1])
    /\ UNCHANGED <<jobVars, calls, tilePlan, bench, pipe>>

\* The stitch job awaited by handleGenerateClick settles: setStitchingState
\* (which only a mounted component takes) and, if it resolved,
\* onNewImageReady(imageUrl), ImageDisplay's setCurrentImageUrl.
AppGenerateSettle ==
    /\ \E job \in app.pending, ok \in BOOLEAN :
          /\ job.origin = "generate"
          /\ LET url == IF ok THEN Some(StitchedUrl(job)) ELSE Null
                 noted == IF job.live
                          THEN [app EXCEPT !.stitchingState =
                                   (job.zoom :> [isLoading |-> FALSE, imageUrl |-> url])
                                       @@ app.stitchingState]
                          ELSE app
                 settled == [noted EXCEPT !.pending = app.pending \ {job}]
             IN  app' = Rendered(app,
                     IF ok THEN [settled EXCEPT !.currentImageUrl = url] ELSE settled)
    /\ UNCHANGED <<jobVars, calls, tilePlan, bench, pipe>>

AppNext == AppSubmit \/ AppSubmitSettle \/ AppGenerate \/ AppGenerateSettle

AppSpec == AppInit /\ [][AppNext]_vars

\* C25: the image shown in the viewer always belongs to the currently
\* selected panorama: whenever currentImageUrl is non-null it is the result
\* of a stitch job for the current panoId.
C25_ViewerShowsCurrentPanorama ==
    app.currentImageUrl # Null => app.currentImageUrl[1].panoId = app.panoId

----------------------------------------------------------------------------
(* The size of what removeHorizontalWrap returns *)

\* C26: removeHorizontalWrap never changes the height; whenever it crops an
\* image of width w, w is at least 512 and the output width is an offset
\* with floor(0.25 * w) <= width < w - 16; an image narrower than 512 is
\* returned unmodified.  This holds whether or not the contexts are obtained.
C26_WrapKeepsHeightAndAQuarter ==
    bench.stage = "unwrapped" =>
        LET w == bench.input.width
        IN  /\ bench.output.height = bench.input.height
            /\ bench.output # bench.input =>
                  /\ w >= 512
                  /\ w \div 4 <= bench.output.width
                  /\ bench.output.width < w - W
            /\ w < 512 => bench.output = bench.input

\* An image of a width that is no multiple of 4, cropped to exactly the
\* floor of its quarter, the least width the function can return.
C26_Witness ==
    /\ bench.stage = "unwrapped"
    /\ bench.input.width % 4 # 0
    /\ bench.input.width >= 512
    /\ bench.output # bench.input
    /\ bench.output.width = bench.input.width \div 4
    /\ bench.output.height = bench.input.height

====
